---- MODULE Spec2Model ----
(***************************************************************************)
(* Trip-simulation engine of emulator-node: the Motion Calculator, the     *)
(* Track Interpolator (GpsDataGenerator) and the Trip Controller           *)
(* (EmulatorInstance) with its two interval timers and its awaited network *)
(* calls.                                                                  *)
(*                                                                         *)
(* Numbers.  Coordinates are integers in units of 0.00005 degree, which is *)
(* half of POSITION_NOISE_MAGNITUDE, so one noise draw                     *)
(* (random() - 0.5) * 0.0001 is a value of -1 .. 0 units.  Math.random is  *)
(* a cyclic generator whose hidden state is unknown at start.  Times are   *)
(* integers in milliseconds.  Trigonometry is replaced by its small-angle  *)
(* planar form in integer arithmetic; flooring and clamping are kept as    *)
(* the code does them.                                                     *)
(***************************************************************************)
EXTENDS Integers, Sequences, FiniteSets, TLC

VARIABLES
    gpxTrackPoints,          \* EmulatorInstance.gpxTrackPoints
    gpsGenerator,            \* EmulatorInstance.gpsGenerator (the interpolator's fields)
    generatedGpsDataBuffer,  \* EmulatorInstance.generatedGpsDataBuffer
    onTime,                  \* EmulatorInstance.onTime (NoDate = null)
    gpsGeneratorInterval,    \* timer handle of the sampler (NoTimer = undefined)
    serverSenderInterval,    \* timer handle of the dispatcher (NoTimer = undefined)
    isRunning,               \* EmulatorInstance.isRunning
    isEngineOn,              \* EmulatorInstance.isEngineOn
    timers,                  \* the event loop's live interval timers
    inflight,                \* awaited network calls that have not settled yet
    now,                     \* the wall clock read by new Date(), in ms
    randomState,             \* the hidden state of Math.random
    calls,                   \* operator calls made so far
    lastResult,              \* how the latest operator call ended for its caller
    emulators,               \* App.emulators: vehicle id -> controller (NoEmulator = absent)
    instances,               \* the EmulatorInstance objects App has constructed
    isInitialized,           \* App.isInitialized
    loading,                 \* App.start calls awaiting GpxParser.parseGpxFile
    appCalls,                \* requests made to App so far
    appResult                \* how the latest request to App ended for its caller

vars == <<gpxTrackPoints, gpsGenerator, generatedGpsDataBuffer, onTime,
          gpsGeneratorInterval, serverSenderInterval, isRunning, isEngineOn,
          timers, inflight, now, randomState, calls, lastResult>>

appVars == <<emulators, instances, isInitialized, loading, appCalls, appResult>>

----------------------------------------------------------------------------
(* Bounds of the model *)

MaxCalls == 3
MaxInFlight == 2
MaxAppCalls == 3
MaxNextCalls == 12
RandomStates == 4

----------------------------------------------------------------------------
(* Program constants *)

EMULATOR_INTERVAL_MS == 1000
MIN_GPX_POINTS == 2
ASSUMED_SPEED_MPS == 50
POSITION_NOISE_HALF == 1
EARTH_METERS_PER_UNIT_E4 == 55597
MPS_TO_KMH_SCALE_E1 == 36
EXPECTED_MAX_SPEED_KMH == 200
DISTANCE_MIN == 0
DISTANCE_MAX == 9999999
SPEED_MIN == 0
SPEED_MAX == 255
DIRECTION_MIN == 0
DIRECTION_MAX == 360

NoDate == -1
NoTimer == 0

Max(a, b) == IF a >= b THEN a ELSE b
Min(a, b) == IF a <= b THEN a ELSE b
Abs(a) == IF a >= 0 THEN a ELSE -a

----------------------------------------------------------------------------
(* Motion Calculator *)

RECURSIVE IsqrtIter(_, _, _)
IsqrtIter(n, lo, hi) ==
    IF lo >= hi THEN lo
    ELSE LET mid == (lo + hi + 1) \div 2
         IN  IF mid * mid <= n THEN IsqrtIter(n, mid, hi)
                               ELSE IsqrtIter(n, lo, mid - 1)

\* floor(sqrt(n)), for n below 2^31
Isqrt(n) == IsqrtIter(n, 0, Min(n, 46340))

\* EARTH_RADIUS * c of the haversine formula, floored to whole meters
HaversineMeters(previous, current) ==
    LET dlat == current.latitude - previous.latitude
        dlon == current.longitude - previous.longitude
    IN  (Isqrt((dlat * dlat + dlon * dlon) * 10000) * EARTH_METERS_PER_UNIT_E4)
            \div 1000000

calculateDistance(previous, current) ==
    IF previous.longitude = current.longitude
          /\ previous.latitude = current.latitude
    THEN DISTANCE_MIN
    ELSE Max(DISTANCE_MIN, Min(HaversineMeters(previous, current), DISTANCE_MAX))

\* calculateSpeed taking the elapsed time as a duration in either order
calculateSpeedEitherOrder(previous, current) ==
    LET distanceMeters == calculateDistance(previous, current)
        timeMillis == Abs(current.intervalAt - previous.intervalAt)
    IN  IF timeMillis <= 0
        THEN SPEED_MIN
        ELSE LET scaledSpeedFloor ==
                     (distanceMeters * 1000 * MPS_TO_KMH_SCALE_E1 * SPEED_MAX)
                         \div (timeMillis * 10 * EXPECTED_MAX_SPEED_KMH)
             IN  Max(SPEED_MIN, Min(scaledSpeedFloor, SPEED_MAX))

\* calculateSpeed without the upper clamp
calculateSpeedUnclamped(previous, current) ==
    LET distanceMeters == calculateDistance(previous, current)
        timeMillis == current.intervalAt - previous.intervalAt
    IN  IF timeMillis <= 0
        THEN SPEED_MIN
        ELSE LET scaledSpeedFloor ==
                     (distanceMeters * 1000 * MPS_TO_KMH_SCALE_E1 * SPEED_MAX)
                         \div (timeMillis * 10 * EXPECTED_MAX_SPEED_KMH)
             IN  Max(SPEED_MIN, scaledSpeedFloor)

calculateSpeed(previous, current) ==
    LET distanceMeters == calculateDistance(previous, current)
        timeMillis == current.intervalAt - previous.intervalAt
    IN  IF timeMillis <= 0
        THEN SPEED_MIN
        ELSE LET scaledSpeedFloor ==
                     (distanceMeters * 1000 * MPS_TO_KMH_SCALE_E1 * SPEED_MAX)
                         \div (timeMillis * 10 * EXPECTED_MAX_SPEED_KMH)
             IN  Max(SPEED_MIN, Min(scaledSpeedFloor, SPEED_MAX))

\* atan(a / b) in millidegrees for 0 <= a <= b, b > 0
AtanMilliDeg(a, b) == (a * (45000 * b + 15660 * (b - a))) \div (b * b)

\* toDegrees(atan2(y, x)) normalised into [0, 360), in millidegrees
BearingMilliDeg(y, x) ==
    LET ay == Abs(y)
        ax == Abs(x)
        q  == IF ay <= ax THEN AtanMilliDeg(ay, ax)
                          ELSE 90000 - AtanMilliDeg(ax, ay)
        raw == IF x >= 0 /\ y >= 0 THEN q
               ELSE IF x < 0 /\ y >= 0 THEN 180000 - q
               ELSE IF x < 0 /\ y < 0 THEN q - 180000
               ELSE 0 - q
    IN  (raw + DIRECTION_MAX * 1000) % (DIRECTION_MAX * 1000)

calculateDirection(previous, current) ==
    IF previous.latitude = current.latitude
          /\ previous.longitude = current.longitude
    THEN DIRECTION_MIN
    ELSE LET bearing == BearingMilliDeg(current.longitude - previous.longitude,
                                        current.latitude - previous.latitude)
         IN  Max(DIRECTION_MIN, Min(bearing \div 1000, DIRECTION_MAX))

----------------------------------------------------------------------------
(* Track Interpolator (GpsDataGenerator) *)

\* Math.random: the generator's next state, and the value random() returns
\* from it as the fraction state / RandomStates of [0, 1)
nextRandom(r) == (r + 1) % RandomStates

\* (random() - 0.5) * POSITION_NOISE_MAGNITUDE, floored to the grid
positionNoise(r) ==
    ((2 * r - RandomStates) * POSITION_NOISE_HALF) \div RandomStates

\* previousGpsWithTime = null
NoPrevious == [latitude |-> 0, longitude |-> 0, intervalAt |-> NoDate]

\* the value carried next to a null GpsInformation
NoGps == [lat |-> 0, lon |-> 0, speed |-> 0, direction |-> 0,
          totalDistance |-> 0, intervalAt |-> NoDate]

\* gpxTrackPoints[i] with the code's 0-based index
PointAt(pts, i) == pts[i + 1]

createGpsFromGpx(point) == [latitude |-> point.lat, longitude |-> point.lon]

\* calculateStepsBetweenPoints flooring the estimated number of intervals
calculateStepsBetweenPointsFloored(g, pts) ==
    IF g.currentTrackPointIndex >= Len(pts) - 1
    THEN [g EXCEPT !.totalStepsBetweenPoints = 1]
    ELSE LET currentPoint == PointAt(pts, g.currentTrackPointIndex)
             nextPoint == PointAt(pts, g.nextTrackPointIndex)
             timeDiffMs == nextPoint.time - currentPoint.time
             distance == calculateDistance(createGpsFromGpx(currentPoint),
                                           createGpsFromGpx(nextPoint))
             flooredSteps ==
                 (distance * 1000) \div (ASSUMED_SPEED_MPS * EMULATOR_INTERVAL_MS)
             total == IF currentPoint.time # NoDate /\ nextPoint.time # NoDate
                      THEN Max(1, timeDiffMs \div EMULATOR_INTERVAL_MS)
                      ELSE Max(1, flooredSteps)
         IN  [g EXCEPT !.totalStepsBetweenPoints = total, !.step = 0]

calculateStepsBetweenPoints(g, pts) ==
    IF g.currentTrackPointIndex >= Len(pts) - 1
    THEN [g EXCEPT !.totalStepsBetweenPoints = 1]
    ELSE LET currentPoint == PointAt(pts, g.currentTrackPointIndex)
             nextPoint == PointAt(pts, g.nextTrackPointIndex)
             timeDiffMs == nextPoint.time - currentPoint.time
             distance == calculateDistance(createGpsFromGpx(currentPoint),
                                           createGpsFromGpx(nextPoint))
             \* Math.round(((distance / 50) * 1000) / intervalMs)
             roundedSteps ==
                 (2 * distance * 1000 + ASSUMED_SPEED_MPS * EMULATOR_INTERVAL_MS)
                     \div (2 * ASSUMED_SPEED_MPS * EMULATOR_INTERVAL_MS)
             total == IF currentPoint.time # NoDate /\ nextPoint.time # NoDate
                      THEN Max(1, timeDiffMs \div EMULATOR_INTERVAL_MS)
                      ELSE Max(1, roundedSteps)
         IN  [g EXCEPT !.totalStepsBetweenPoints = total, !.step = 0]

\* new GpsDataGenerator(mdn, pts, EMULATOR_INTERVAL_MS), for Len(pts) >= MIN_GPX_POINTS
GpsDataGenerator(pts) ==
    calculateStepsBetweenPoints(
        [currentTrackPointIndex |-> 0,
         nextTrackPointIndex |-> 1,
         step |-> 0,
         totalStepsBetweenPoints |-> 0,
         currentLat |-> pts[1].lat,
         currentLon |-> pts[1].lon,
         previousGpsWithTime |-> NoPrevious,
         totalDistance |-> 0], pts)

\* getCurrentGpsInfo reporting no distance
getCurrentGpsInfoWithoutDistance(g, date) ==
    [lat |-> g.currentLat, lon |-> g.currentLon, speed |-> 0, direction |-> 0,
     totalDistance |-> 0, intervalAt |-> date]

getCurrentGpsInfo(g, date) ==
    [lat |-> g.currentLat, lon |-> g.currentLon, speed |-> 0, direction |-> 0,
     totalDistance |-> g.totalDistance, intervalAt |-> date]

\* isEndOfPath holding only on the call that completes the last step
isEndOfPathOnce(g, pts) ==
    /\ g.nextTrackPointIndex >= Len(pts)
    /\ g.step = g.totalStepsBetweenPoints

isEndOfPath(g, pts) ==
    /\ g.nextTrackPointIndex >= Len(pts)
    /\ g.step >= g.totalStepsBetweenPoints

\* advanceToNextStepOrSegment leaving a segment one step late
advanceToNextStepOrSegmentLate(g, pts) ==
    LET g1 == [g EXCEPT !.step = g.step + 1]
    IN  IF g1.step > g1.totalStepsBetweenPoints
        THEN IF g1.nextTrackPointIndex >= Len(pts)
             THEN g1
             ELSE LET g2 == [g1 EXCEPT
                                !.currentTrackPointIndex = g1.nextTrackPointIndex,
                                !.nextTrackPointIndex = g1.nextTrackPointIndex + 1,
                                !.step = 0]
                  IN  IF g2.nextTrackPointIndex < Len(pts)
                      THEN calculateStepsBetweenPoints(g2, pts)
                      ELSE [g2 EXCEPT !.totalStepsBetweenPoints = 1]
        ELSE g1

advanceToNextStepOrSegment(g, pts) ==
    LET g1 == [g EXCEPT !.step = g.step + 1]
    IN  IF g1.step >= g1.totalStepsBetweenPoints
        THEN IF g1.nextTrackPointIndex >= Len(pts)
             THEN g1
             ELSE LET g2 == [g1 EXCEPT
                                !.currentTrackPointIndex = g1.nextTrackPointIndex,
                                !.nextTrackPointIndex = g1.nextTrackPointIndex + 1,
                                !.step = 0]
                  IN  IF g2.nextTrackPointIndex < Len(pts)
                      THEN calculateStepsBetweenPoints(g2, pts)
                      ELSE [g2 EXCEPT !.totalStepsBetweenPoints = 1]
        ELSE g1

\* progress = step / totalSteps, the interpolated coordinate floored to the grid
interpolateAndAddNoise(g, currentPoint, nextPoint, noiseLat, noiseLon) ==
    [g EXCEPT
        !.currentLat = currentPoint.lat
            + (((nextPoint.lat - currentPoint.lat) * g.step)
                   \div g.totalStepsBetweenPoints) + noiseLat,
        !.currentLon = currentPoint.lon
            + (((nextPoint.lon - currentPoint.lon) * g.step)
                   \div g.totalStepsBetweenPoints) + noiseLon]

\* calculateMotionMetrics measuring the first sample from the origin
calculateMotionMetricsFromOrigin(g, timestamp) ==
    LET currentGpsWithTime == [latitude |-> g.currentLat,
                               longitude |-> g.currentLon,
                               intervalAt |-> timestamp]
    IN  [speed |-> calculateSpeed(g.previousGpsWithTime, currentGpsWithTime),
         direction |-> calculateDirection(g.previousGpsWithTime,
                                          currentGpsWithTime),
         segmentDistance |-> calculateDistance(g.previousGpsWithTime,
                                               currentGpsWithTime)]

calculateMotionMetrics(g, timestamp) ==
    IF g.previousGpsWithTime # NoPrevious
    THEN LET currentGpsWithTime == [latitude |-> g.currentLat,
                                    longitude |-> g.currentLon,
                                    intervalAt |-> timestamp]
         IN  [speed |-> calculateSpeed(g.previousGpsWithTime, currentGpsWithTime),
              direction |-> calculateDirection(g.previousGpsWithTime,
                                               currentGpsWithTime),
              segmentDistance |-> calculateDistance(g.previousGpsWithTime,
                                                    currentGpsWithTime)]
    ELSE [speed |-> 0, direction |-> 0, segmentDistance |-> 0]

\* generateNextGpsData reporting the distance of the last step only
recordGpsDataPerSegment(g, m, timestamp) ==
    [gen |-> [g EXCEPT !.totalDistance = m.segmentDistance,
                       !.previousGpsWithTime =
                           [latitude |-> g.currentLat,
                            longitude |-> g.currentLon,
                            intervalAt |-> timestamp]],
     isNull |-> FALSE,
     data |-> [lat |-> g.currentLat, lon |-> g.currentLon,
               speed |-> m.speed, direction |-> m.direction,
               totalDistance |-> m.segmentDistance,
               intervalAt |-> timestamp]]

\* generateNextGpsData from "const newGpsInfo" on: m is calculateMotionMetrics
recordGpsData(g, m, timestamp) ==
    [gen |-> [g EXCEPT !.totalDistance = g.totalDistance + m.segmentDistance,
                       !.previousGpsWithTime =
                           [latitude |-> g.currentLat,
                            longitude |-> g.currentLon,
                            intervalAt |-> timestamp]],
     isNull |-> FALSE,
     data |-> [lat |-> g.currentLat, lon |-> g.currentLon,
               speed |-> m.speed, direction |-> m.direction,
               totalDistance |-> g.totalDistance + m.segmentDistance,
               intervalAt |-> timestamp]]

\* generateNextGpsData: the new position, interpolated while a next point
\* exists and perturbed in place on the final waypoint
moveCurrentPosition(g, pts, noiseLat, noiseLon) ==
    IF g.nextTrackPointIndex < Len(pts)
    THEN interpolateAndAddNoise(g, PointAt(pts, g.currentTrackPointIndex),
                                PointAt(pts, g.nextTrackPointIndex),
                                noiseLat, noiseLon)
    ELSE [g EXCEPT !.currentLat = g.currentLat + noiseLat,
                   !.currentLon = g.currentLon + noiseLon]

\* generateNextGpsData after advanceToNextStepOrSegment, from the moved position
measureGpsData(g, timestamp) ==
    recordGpsData(g, calculateMotionMetrics(g, timestamp), timestamp)

\* generateNextGpsData after advanceToNextStepOrSegment
generateFromCursor(g, pts, noiseLat, noiseLon, timestamp) ==
    IF isEndOfPath(g, pts)
    THEN [gen |-> g, isNull |-> TRUE, data |-> NoGps]
    ELSE measureGpsData(moveCurrentPosition(g, pts, noiseLat, noiseLon), timestamp)

\* returns the generator after the call and the GpsInformation (isNull for null)
generateNextGpsData(g, pts, noiseLat, noiseLon, timestamp) ==
    generateFromCursor(advanceToNextStepOrSegment(g, pts), pts,
                       noiseLat, noiseLon, timestamp)

----------------------------------------------------------------------------
(* Telemetry Sink client (ServerApiClient): how each call settles for the  *)
(* awaiting caller, given what the HTTP post did.                          *)

NetworkOutcomes == {"ok", "fail"}

\* try { post; return response.data.mdn } catch { log; return null }
sendOnRequest(net) ==
    IF net = "ok" THEN [settled |-> "resolved", value |-> "mdn"]
                  ELSE [settled |-> "resolved", value |-> "null"]

\* try { post } catch { log }
sendOffRequest(net) ==
    IF net = "ok" THEN [settled |-> "resolved", value |-> "undefined"]
                  ELSE [settled |-> "resolved", value |-> "undefined"]

\* try { post } catch { log }
sendCycleData(net) ==
    IF net = "ok" THEN [settled |-> "resolved", value |-> "undefined"]
                  ELSE [settled |-> "resolved", value |-> "undefined"]

\* an HTTP request on its way; caller is the function awaiting it
OnRequest(gpsInformation, onT) ==
    [caller |-> "start", request |-> "on", gps |-> gpsInformation,
     onTime |-> onT, offTime |-> NoDate, samples |-> <<>>]

OffRequest(gpsInformation, onT, offT) ==
    [caller |-> "stop", request |-> "off", gps |-> gpsInformation,
     onTime |-> onT, offTime |-> offT, samples |-> <<>>]

CycleRequest(who, dataToSend) ==
    [caller |-> who, request |-> "cycle", gps |-> NoGps,
     onTime |-> NoDate, offTime |-> NoDate, samples |-> dataToSend]

RemoveAt(q, i) == [j \in 1..(Len(q) - 1) |-> IF j < i THEN q[j] ELSE q[j + 1]]

----------------------------------------------------------------------------
(* Trip Controller (EmulatorInstance) *)

\* the controller's fields together with the event loop's timers and requests
\* and the state of Math.random
This ==
    [gpxTrackPoints |-> gpxTrackPoints,
     gpsGenerator |-> gpsGenerator,
     generatedGpsDataBuffer |-> generatedGpsDataBuffer,
     onTime |-> onTime,
     gpsGeneratorInterval |-> gpsGeneratorInterval,
     serverSenderInterval |-> serverSenderInterval,
     isRunning |-> isRunning,
     isEngineOn |-> isEngineOn,
     timers |-> timers,
     inflight |-> inflight,
     randomState |-> randomState]

Commit(s) ==
    /\ gpsGenerator' = s.gpsGenerator
    /\ generatedGpsDataBuffer' = s.generatedGpsDataBuffer
    /\ onTime' = s.onTime
    /\ gpsGeneratorInterval' = s.gpsGeneratorInterval
    /\ serverSenderInterval' = s.serverSenderInterval
    /\ isRunning' = s.isRunning
    /\ isEngineOn' = s.isEngineOn
    /\ timers' = s.timers
    /\ inflight' = s.inflight
    /\ randomState' = s.randomState
    /\ UNCHANGED appVars

\* a step that leaves at most MaxInFlight requests on their way
CommitWithin(s) ==
    /\ Len(s.inflight) <= MaxInFlight
    /\ Commit(s)

\* the handle setInterval returns: the least identifier no live timer has
FreshTimer(ts) ==
    CHOOSE n \in 1..(Cardinality(ts) + 1) :
        /\ \A t \in ts : t.id # n
        /\ \A m \in 1..(n - 1) : \E t \in ts : t.id = m

clearInterval(ts, handle) == {t \in ts : t.id # handle}

\* startIntervals() without its check of the handles
startIntervalsUnguarded(s) ==
    LET gpsId == FreshTimer(s.timers)
        ts1 == s.timers \cup {[id |-> gpsId, kind |-> "gps"]}
        sendId == FreshTimer(ts1)
    IN  [s EXCEPT !.gpsGeneratorInterval = gpsId,
                  !.serverSenderInterval = sendId,
                  !.timers = ts1 \cup {[id |-> sendId, kind |-> "send"]}]

\* startIntervals() scheduling the sampler only
startIntervalsSamplerOnly(s) ==
    IF s.gpsGeneratorInterval # NoTimer \/ s.serverSenderInterval # NoTimer
    THEN s
    ELSE LET gpsId == FreshTimer(s.timers)
         IN  [s EXCEPT !.gpsGeneratorInterval = gpsId,
                       !.timers = s.timers \cup {[id |-> gpsId, kind |-> "gps"]}]

startIntervals(s) ==
    IF s.gpsGeneratorInterval # NoTimer \/ s.serverSenderInterval # NoTimer
    THEN s
    ELSE LET gpsId == FreshTimer(s.timers)
             ts1 == s.timers \cup {[id |-> gpsId, kind |-> "gps"]}
             sendId == FreshTimer(ts1)
         IN  [s EXCEPT !.gpsGeneratorInterval = gpsId,
                       !.serverSenderInterval = sendId,
                       !.timers = ts1 \cup {[id |-> sendId, kind |-> "send"]}]

\* stopIntervals() clearing the sampler only
stopIntervalsSamplerOnly(s) ==
    IF s.gpsGeneratorInterval # NoTimer
    THEN [s EXCEPT !.timers = clearInterval(@, s.gpsGeneratorInterval),
                   !.gpsGeneratorInterval = NoTimer]
    ELSE s

stopIntervals(s) ==
    LET s1 == IF s.gpsGeneratorInterval # NoTimer
              THEN [s EXCEPT !.timers = clearInterval(@, s.gpsGeneratorInterval),
                             !.gpsGeneratorInterval = NoTimer]
              ELSE s
    IN  IF s1.serverSenderInterval # NoTimer
        THEN [s1 EXCEPT !.timers = clearInterval(@, s1.serverSenderInterval),
                        !.serverSenderInterval = NoTimer]
        ELSE s1

\* hardStop() leaving the staging buffer as it is
hardStopKeepingBuffer(s) ==
    [stopIntervals(s) EXCEPT
        !.isRunning = FALSE,
        !.isEngineOn = FALSE,
        !.onTime = NoDate,
        !.gpsGenerator = GpsDataGenerator(s.gpxTrackPoints)]

hardStop(s) ==
    [stopIntervals(s) EXCEPT
        !.isRunning = FALSE,
        !.isEngineOn = FALSE,
        !.onTime = NoDate,
        !.generatedGpsDataBuffer = <<>>,
        !.gpsGenerator = GpsDataGenerator(s.gpxTrackPoints)]

\* sendBufferedGpsData posting the buffer without swapping it out
sendBufferedGpsDataKeepingBuffer(s, who) ==
    IF Len(s.generatedGpsDataBuffer) = 0
    THEN s
    ELSE [s EXCEPT !.inflight = Append(@, CycleRequest(who, s.generatedGpsDataBuffer))]

\* up to its await: an empty buffer returns at once, otherwise the buffer is
\* swapped out and the batch is posted on behalf of who
sendBufferedGpsData(s, who) ==
    IF Len(s.generatedGpsDataBuffer) = 0
    THEN s
    ELSE [s EXCEPT !.generatedGpsDataBuffer = <<>>,
                   !.inflight = Append(@, CycleRequest(who, s.generatedGpsDataBuffer))]

\* endTripNormally after its await, leaving the engine on
endTripNormallyResumedEngineOn(s) ==
    [s EXCEPT !.gpsGenerator = GpsDataGenerator(s.gpxTrackPoints),
              !.onTime = NoDate]

\* endTripNormally after its await of sendBufferedGpsData(true)
endTripNormallyResumed(s) ==
    [s EXCEPT !.gpsGenerator = GpsDataGenerator(s.gpxTrackPoints),
              !.onTime = NoDate,
              !.isEngineOn = FALSE]

\* an empty buffer makes the await a microtask, so the call runs to its end
endTripNormally(s) ==
    LET s1 == [stopIntervals(s) EXCEPT !.isRunning = FALSE]
        s2 == sendBufferedGpsData(s1, "endTrip")
    IN  IF Len(s2.inflight) > Len(s1.inflight)
        THEN s2
        ELSE endTripNormallyResumed(s2)

\* the callback of gpsGeneratorInterval pushing whatever it was given
gpsGeneratorCallbackPushingNull(s, r) ==
    IF ~r.isNull
    THEN [s EXCEPT !.gpsGenerator = r.gen,
                   !.generatedGpsDataBuffer = Append(@, r.data),
                   !.randomState = nextRandom(nextRandom(@))]
    ELSE [s EXCEPT !.gpsGenerator = r.gen,
                   !.generatedGpsDataBuffer = Append(@, r.data)]

\* the callback of gpsGeneratorInterval, r being what generateNextGpsData
\* returned; a sample costs two draws of this.random
gpsGeneratorCallback(s, r) ==
    IF ~r.isNull
    THEN [s EXCEPT !.gpsGenerator = r.gen,
                   !.generatedGpsDataBuffer = Append(@, r.data),
                   !.randomState = nextRandom(nextRandom(@))]
    ELSE endTripNormally(stopIntervals([s EXCEPT !.gpsGenerator = r.gen]))

\* stop() from offTime = new Date() to its await of sendOffRequest
stopSendOff(s) ==
    [s EXCEPT !.inflight =
        Append(@, OffRequest(getCurrentGpsInfo(s.gpsGenerator, now), s.onTime, now))]

----------------------------------------------------------------------------
(* Inputs *)

\* two timestamped waypoints 2 s apart (2 steps)
TimedTrack ==
    <<[lat |-> 0, lon |-> 0, time |-> 0],
      [lat |-> 0, lon |-> 4, time |-> 2000]>>

\* three waypoints without timestamps: about 100 m (2 steps), then a coincident
\* waypoint (1 step)
UntimedTrack ==
    <<[lat |-> 0, lon |-> 0, time |-> NoDate],
      [lat |-> 18, lon |-> 0, time |-> NoDate],
      [lat |-> 18, lon |-> 0, time |-> NoDate]>>

Tracks == {TimedTrack, UntimedTrack}

\* the states Math.random may be in when the controller is constructed
Seeds == {0, 1}

NoResult == [op |-> "none", status |-> "none", net |-> "none"]

\* the vehicle identifiers requests are made for
Vehicles == {"v1", "v2"}

\* emulators.get(id) = undefined
NoEmulator == 0

NoAppResult == [status |-> "none", net |-> "none"]

\* new App(): an empty map, not initialized
App ==
    /\ emulators = [id \in Vehicles |-> NoEmulator]
    /\ instances = <<>>
    /\ isInitialized = FALSE
    /\ loading = <<>>
    /\ appCalls = 0
    /\ appResult = NoAppResult

----------------------------------------------------------------------------
(* Operations *)

Init ==
    /\ gpxTrackPoints \in Tracks
    /\ gpsGenerator = GpsDataGenerator(gpxTrackPoints)
    /\ generatedGpsDataBuffer = <<>>
    /\ onTime = NoDate
    /\ gpsGeneratorInterval = NoTimer
    /\ serverSenderInterval = NoTimer
    /\ isRunning = FALSE
    /\ isEngineOn = FALSE
    /\ timers = {}
    /\ inflight = <<>>
    /\ now = 0
    /\ randomState \in Seeds
    /\ calls = 0
    /\ lastResult = NoResult
    /\ App

\* start() without its isRunning guard
StartUnguarded ==
    /\ calls < MaxCalls
    /\ calls' = calls + 1
    /\ Len(inflight) < MaxInFlight
    /\ LET s1 == [This EXCEPT !.onTime = IF @ = NoDate THEN now ELSE @]
       IN  Commit([s1 EXCEPT !.inflight =
               Append(@, OnRequest(getCurrentGpsInfo(s1.gpsGenerator, now), s1.onTime))])
    /\ UNCHANGED <<gpxTrackPoints, now, lastResult>>

\* start() stamping the trip-start time on every call
StartRestamped ==
    /\ calls < MaxCalls
    /\ calls' = calls + 1
    /\ IF isRunning
       THEN /\ Commit(This)
            /\ lastResult' = [op |-> "start", status |-> "returned", net |-> "none"]
       ELSE /\ Len(inflight) < MaxInFlight
            /\ LET s1 == [This EXCEPT !.onTime = now]
               IN  Commit([s1 EXCEPT !.inflight =
                       Append(@, OnRequest(getCurrentGpsInfo(s1.gpsGenerator, now),
                                           s1.onTime))])
            /\ UNCHANGED lastResult
    /\ UNCHANGED <<gpxTrackPoints, now>>

\* start() up to its await of sendOnRequest; getCurrentGpsInfo always returns an
\* object, so the !currentGpsInfo branch is never taken
Start ==
    /\ calls < MaxCalls
    /\ calls' = calls + 1
    /\ IF isRunning
       THEN /\ Commit(This)
            /\ lastResult' = [op |-> "start", status |-> "returned", net |-> "none"]
       ELSE /\ Len(inflight) < MaxInFlight
            /\ LET s1 == [This EXCEPT !.onTime = IF @ = NoDate THEN now ELSE @]
                   currentGpsInfo == getCurrentGpsInfo(s1.gpsGenerator, now)
               IN  Commit([s1 EXCEPT !.inflight =
                              Append(@, OnRequest(currentGpsInfo, s1.onTime))])
            /\ UNCHANGED lastResult
    /\ UNCHANGED <<gpxTrackPoints, now>>

\* start() after sendOnRequest has settled
StartSettled(i) ==
    /\ i \in DOMAIN inflight
    /\ inflight[i].caller = "start"
    /\ \E net \in NetworkOutcomes :
          LET r == sendOnRequest(net)
              s0 == [This EXCEPT !.inflight = RemoveAt(@, i)]
          IN  IF r.settled = "resolved"
              THEN /\ Commit(startIntervals([s0 EXCEPT !.isEngineOn = TRUE,
                                                       !.isRunning = TRUE]))
                   /\ lastResult' = [op |-> "start", status |-> "returned",
                                     net |-> net]
              ELSE /\ Commit(hardStop(s0))
                   /\ lastResult' = [op |-> "start", status |-> "threw",
                                     net |-> net]
    /\ UNCHANGED <<gpxTrackPoints, now, calls>>

\* stop() without its isEngineOn guard
StopUnguarded ==
    /\ calls < MaxCalls
    /\ calls' = calls + 1
    /\ Len(inflight) < MaxInFlight
    /\ LET s1 == [stopIntervals(This) EXCEPT !.isRunning = FALSE]
       IN  IF Len(s1.generatedGpsDataBuffer) > 0
           THEN Commit([s1 EXCEPT !.inflight =
                   Append(@, CycleRequest("stop", s1.generatedGpsDataBuffer))])
           ELSE Commit(stopSendOff(s1))
    /\ UNCHANGED <<gpxTrackPoints, now, lastResult>>

\* stop() sending the trip-end message without flushing the buffer first
StopWithoutFlush ==
    /\ calls < MaxCalls
    /\ calls' = calls + 1
    /\ IF ~isEngineOn
       THEN /\ Commit(This)
            /\ lastResult' = [op |-> "stop", status |-> "returned", net |-> "none"]
       ELSE /\ Len(inflight) < MaxInFlight
            /\ Commit(stopSendOff([stopIntervals(This) EXCEPT !.isRunning = FALSE]))
            /\ UNCHANGED lastResult
    /\ UNCHANGED <<gpxTrackPoints, now>>

\* stop() up to its first await
Stop ==
    /\ calls < MaxCalls
    /\ calls' = calls + 1
    /\ IF ~isEngineOn
       THEN /\ Commit(This)
            /\ lastResult' = [op |-> "stop", status |-> "returned", net |-> "none"]
       ELSE /\ Len(inflight) < MaxInFlight
            /\ LET s1 == [stopIntervals(This) EXCEPT !.isRunning = FALSE]
               IN  IF Len(s1.generatedGpsDataBuffer) > 0
                   THEN Commit([s1 EXCEPT !.inflight =
                           Append(@, CycleRequest("stop", s1.generatedGpsDataBuffer))])
                   ELSE Commit(stopSendOff(s1))
            /\ UNCHANGED lastResult
    /\ UNCHANGED <<gpxTrackPoints, now>>

\* stop() after its final sendCycleData has settled, up to the await of sendOffRequest
StopCycleSettled(i) ==
    /\ i \in DOMAIN inflight
    /\ inflight[i].caller = "stop"
    /\ inflight[i].request = "cycle"
    /\ \E net \in NetworkOutcomes :
          LET r == sendCycleData(net)
              s0 == [This EXCEPT !.inflight = RemoveAt(@, i)]
          IN  IF r.settled = "resolved"
              THEN /\ Commit(stopSendOff([s0 EXCEPT !.generatedGpsDataBuffer = <<>>]))
                   /\ UNCHANGED lastResult
              ELSE /\ Commit([s0 EXCEPT !.isEngineOn = FALSE])
                   /\ lastResult' = [op |-> "stop", status |-> "threw", net |-> net]
    /\ UNCHANGED <<gpxTrackPoints, now, calls>>

\* stop() after sendOffRequest has settled
StopOffSettled(i) ==
    /\ i \in DOMAIN inflight
    /\ inflight[i].caller = "stop"
    /\ inflight[i].request = "off"
    /\ \E net \in NetworkOutcomes :
          LET r == sendOffRequest(net)
              s0 == [This EXCEPT !.inflight = RemoveAt(@, i)]
          IN  /\ Commit([s0 EXCEPT !.isEngineOn = FALSE])
              /\ lastResult' = [op |-> "stop",
                                status |-> IF r.settled = "resolved"
                                           THEN "returned" ELSE "threw",
                                net |-> net]
    /\ UNCHANGED <<gpxTrackPoints, now, calls>>

\* an operator or the registry calls hardStop()
HardStop ==
    /\ calls < MaxCalls
    /\ calls' = calls + 1
    /\ Commit(hardStop(This))
    /\ lastResult' = [op |-> "hardStop", status |-> "returned", net |-> "none"]
    /\ UNCHANGED <<gpxTrackPoints, now>>

\* the sampler's interval callback, one EMULATOR_INTERVAL_MS later
GpsGeneratorTick ==
    /\ \E t \in timers : t.kind = "gps"
    /\ now' = now + EMULATOR_INTERVAL_MS
    /\ CommitWithin(
          gpsGeneratorCallback(This,
              generateNextGpsData(gpsGenerator, gpxTrackPoints,
                  positionNoise(nextRandom(randomState)),
                  positionNoise(nextRandom(nextRandom(randomState))),
                  now + EMULATOR_INTERVAL_MS)))
    /\ UNCHANGED <<gpxTrackPoints, calls, lastResult>>

\* the dispatcher's interval callback
ServerSenderTick ==
    /\ \E t \in timers : t.kind = "send"
    /\ CommitWithin(sendBufferedGpsData(This, "dispatch"))
    /\ UNCHANGED <<gpxTrackPoints, now, calls, lastResult>>

\* sendBufferedGpsData() of the dispatcher putting a failed batch back
DispatchSettledRequeued(i) ==
    /\ i \in DOMAIN inflight
    /\ inflight[i].caller = "dispatch"
    /\ \E net \in NetworkOutcomes :
          /\ Commit([This EXCEPT
                 !.inflight = RemoveAt(@, i),
                 !.generatedGpsDataBuffer =
                     IF net = "fail" THEN inflight[i].samples \o @ ELSE @])
          /\ lastResult' = [op |-> "dispatch", status |-> "returned", net |-> net]
    /\ UNCHANGED <<gpxTrackPoints, now, calls>>

\* sendBufferedGpsData() of the dispatcher after sendCycleData has settled: the
\* callback returns whether the batch was logged as sent or as failed
DispatchSettled(i) ==
    /\ i \in DOMAIN inflight
    /\ inflight[i].caller = "dispatch"
    /\ \E net \in NetworkOutcomes :
          LET r == sendCycleData(net)
          IN  /\ Commit([This EXCEPT !.inflight = RemoveAt(@, i)])
              /\ lastResult' = [op |-> "dispatch",
                                status |-> IF r.settled = "resolved"
                                           THEN "returned" ELSE "threw",
                                net |-> net]
    /\ UNCHANGED <<gpxTrackPoints, now, calls>>

\* endTripNormally() after its final flush has settled
EndTripSettled(i) ==
    /\ i \in DOMAIN inflight
    /\ inflight[i].caller = "endTrip"
    /\ \E net \in NetworkOutcomes :
          LET r == sendCycleData(net)
          IN  Commit(endTripNormallyResumed([This EXCEPT !.inflight = RemoveAt(@, i)]))
    /\ UNCHANGED <<gpxTrackPoints, now, calls, lastResult>>

Next ==
    \/ Start
    \/ \E i \in DOMAIN inflight : StartSettled(i)
    \/ Stop
    \/ \E i \in DOMAIN inflight : StopCycleSettled(i)
    \/ \E i \in DOMAIN inflight : StopOffSettled(i)
    \/ HardStop
    \/ GpsGeneratorTick
    \/ ServerSenderTick
    \/ \E i \in DOMAIN inflight : DispatchSettled(i)
    \/ \E i \in DOMAIN inflight : EndTripSettled(i)

Spec == Init /\ [][Next]_vars

----------------------------------------------------------------------------
(* Fleet Registry (App): a map from vehicle identifier to controller.  The *)
(* controllers it holds are records of the controller's fields, each with  *)
(* its own timers and unanswered requests; Math.random and the clock are   *)
(* shared by the whole process.  The clock is read at the grain of the     *)
(* trips: it advances by one sampling interval with every request that     *)
(* halts one.  The tracks requested here end before the first              *)
(* SERVER_SEND_INTERVAL_MS of a trip has passed, so no dispatcher fires.   *)

\* the controller's variables no request to App touches
controllerVars ==
    <<gpxTrackPoints, gpsGenerator, generatedGpsDataBuffer, onTime,
      gpsGeneratorInterval, serverSenderInterval, isRunning, isEngineOn,
      timers, inflight, calls, lastResult>>

\* the route names a request may carry
Routes == {"timed", "short", "missing"}

\* one waypoint only
ShortTrack == <<[lat |-> 0, lon |-> 0, time |-> NoDate]>>

\* two timestamped waypoints 1 s apart (1 step)
BriefTimedTrack ==
    <<[lat |-> 0, lon |-> 0, time |-> 0],
      [lat |-> 0, lon |-> 2, time |-> 1000]>>

\* GpxParser.parseGpxFile(assets/<route>.gpx): the waypoints of the file, or a
\* rejection when the file cannot be read
parseGpxFile(route) ==
    CASE route = "timed" -> [settled |-> "resolved", value |-> BriefTimedTrack]
      [] route = "short" -> [settled |-> "resolved", value |-> ShortTrack]
      [] OTHER -> [settled |-> "rejected", value |-> <<>>]

\* new EmulatorInstance(emulatorId, route, gpxTrackPoints, apiClient), for a
\* track the interpolator's constructor accepts
EmulatorInstance(emulatorId, route, pts) ==
    [gpxTrackPoints |-> pts,
     gpsGenerator |-> GpsDataGenerator(pts),
     generatedGpsDataBuffer |-> <<>>,
     onTime |-> NoDate,
     gpsGeneratorInterval |-> NoTimer,
     serverSenderInterval |-> NoTimer,
     isRunning |-> FALSE,
     isEngineOn |-> FALSE,
     timers |-> {},
     inflight |-> <<>>,
     randomState |-> 0,
     vehicleId |-> emulatorId,
     route |-> route]

\* EmulatorInstance.getStatus()
getStatus(s) ==
    IF s.isRunning THEN "running"
    ELSE IF s.onTime # NoDate THEN "stopped"
    ELSE "pending"

\* start() of a controller up to its await of sendOnRequest
start(s) ==
    IF s.isRunning
    THEN s
    ELSE LET s1 == [s EXCEPT !.onTime = IF @ = NoDate THEN now ELSE @]
         IN  [s1 EXCEPT !.inflight =
                 Append(@, OnRequest(getCurrentGpsInfo(s1.gpsGenerator, now),
                                     s1.onTime))]

\* start() of a controller after sendOnRequest has settled
startResumed(s, i, net) ==
    IF sendOnRequest(net).settled = "resolved"
    THEN startIntervals([s EXCEPT !.inflight = RemoveAt(@, i),
                                  !.isEngineOn = TRUE,
                                  !.isRunning = TRUE])
    ELSE hardStop([s EXCEPT !.inflight = RemoveAt(@, i)])

\* stop() of a controller from its guard to its first await
stopHalted(s) ==
    IF Len(s.generatedGpsDataBuffer) > 0
    THEN [s EXCEPT !.inflight =
             Append(@, CycleRequest("stop", s.generatedGpsDataBuffer))]
    ELSE stopSendOff(s)

\* stop() of a controller up to its first await
stop(s) ==
    IF ~s.isEngineOn
    THEN s
    ELSE stopHalted([stopIntervals(s) EXCEPT !.isRunning = FALSE])

\* stop() of a controller after its final sendCycleData has settled
stopCycleResumed(s, i, net) ==
    IF sendCycleData(net).settled = "resolved"
    THEN stopSendOff([s EXCEPT !.inflight = RemoveAt(@, i),
                               !.generatedGpsDataBuffer = <<>>])
    ELSE [s EXCEPT !.inflight = RemoveAt(@, i), !.isEngineOn = FALSE]

\* stop() of a controller after sendOffRequest has settled
stopOffResumed(s, i, net) ==
    [s EXCEPT !.inflight = RemoveAt(@, i), !.isEngineOn = FALSE]

\* the sampler's callback on a controller that draws from the shared Math.random
sampled(s) ==
    gpsGeneratorCallback(s,
        generateNextGpsData(s.gpsGenerator, s.gpxTrackPoints,
            positionNoise(nextRandom(s.randomState)),
            positionNoise(nextRandom(nextRandom(s.randomState))),
            now))

\* the controllers emulators holds
Registered == {emulators[id] : id \in Vehicles} \ {NoEmulator}

\* the controllers that hold a timer or await an answer
Busy(insts) ==
    {o \in DOMAIN insts : insts[o].timers # {} \/ insts[o].inflight # <<>>}

\* at most MaxInFlight tracks being loaded and controllers at work at a time
WithinApp(insts, ld) == Len(ld) + Cardinality(Busy(insts)) <= MaxInFlight

\* vehicle identifiers are interchangeable while no controller exists and no
\* track is being loaded: the first one put to use is "v1"
InUse(emulatorId) ==
    emulatorId = "v1" \/ instances # <<>> \/ loading # <<>>


\* the result a caller of App gets
AppReturned(net) == [status |-> "returned", net |-> net]
AppThrew(net) == [status |-> "threw", net |-> net]

RegistryInit ==
    /\ Init
    /\ gpxTrackPoints = TimedTrack
    /\ randomState = 0

\* initializeEmulators(): the server calls it once, when it starts listening
\* and before it has served a request
InitializeEmulators ==
    /\ ~isInitialized
    /\ appCalls = 0
    /\ isInitialized' = TRUE
    /\ UNCHANGED <<emulators, instances, loading, appCalls, appResult>>
    /\ UNCHANGED <<controllerVars, now, randomState>>

\* App.start resuming whatever controller the map holds, pending or not
AppStartResumesPending(emulatorId, route) ==
    /\ appCalls < MaxAppCalls
    /\ InUse(emulatorId)
    /\ appCalls' = appCalls + 1
    /\ IF ~isInitialized
       THEN /\ appResult' = AppThrew("none")
            /\ UNCHANGED <<instances, loading>>
       ELSE IF emulators[emulatorId] # NoEmulator
            THEN /\ instances' = [instances EXCEPT ![emulators[emulatorId]] = start(@)]
                 /\ WithinApp(instances', loading)
                 /\ appResult' = IF instances[emulators[emulatorId]].isRunning
                                 THEN AppReturned("none")
                                 ELSE appResult
                 /\ UNCHANGED loading
            ELSE /\ loading' = Append(loading, [emulatorId |-> emulatorId,
                                                route |-> route])
                 /\ WithinApp(instances, loading')
                 /\ UNCHANGED <<instances, appResult>>
    /\ UNCHANGED <<emulators, isInitialized, controllerVars, now, randomState>>

\* App.start(emulatorId, route) up to its first await
AppStart(emulatorId, route) ==
    /\ appCalls < MaxAppCalls
    /\ InUse(emulatorId)
    /\ appCalls' = appCalls + 1
    /\ IF ~isInitialized
       THEN /\ appResult' = AppThrew("none")
            /\ UNCHANGED <<instances, loading>>
       ELSE IF /\ emulators[emulatorId] # NoEmulator
               /\ getStatus(instances[emulators[emulatorId]]) # "pending"
            THEN /\ instances' = [instances EXCEPT ![emulators[emulatorId]] = start(@)]
                 /\ WithinApp(instances', loading)
                 /\ appResult' = IF instances[emulators[emulatorId]].isRunning
                                 THEN AppReturned("none")
                                 ELSE appResult
                 /\ UNCHANGED loading
            ELSE /\ loading' = Append(loading, [emulatorId |-> emulatorId,
                                                route |-> route])
                 /\ WithinApp(instances, loading')
                 /\ UNCHANGED <<instances, appResult>>
    /\ UNCHANGED <<emulators, isInitialized, controllerVars, now, randomState>>

\* App.start swallowing the error of a failed setup and dropping the entry the
\* vehicle had
AppStartLoadedSwallowing(k) ==
    /\ k \in DOMAIN loading
    /\ loading' = RemoveAt(loading, k)
    /\ IF \/ parseGpxFile(loading[k].route).settled = "rejected"
          \/ Len(parseGpxFile(loading[k].route).value) < MIN_GPX_POINTS
       THEN /\ appResult' = AppReturned("none")
            /\ emulators' = [emulators EXCEPT ![loading[k].emulatorId] = NoEmulator]
            /\ UNCHANGED instances
       ELSE /\ instances' = Append(instances,
                   start(EmulatorInstance(loading[k].emulatorId, loading[k].route,
                                          parseGpxFile(loading[k].route).value)))
            /\ emulators' = [emulators EXCEPT ![loading[k].emulatorId] =
                                Len(instances) + 1]
            /\ UNCHANGED appResult
    /\ UNCHANGED <<isInitialized, appCalls, controllerVars, now, randomState>>

\* App.start after parseGpxFile has settled: a rejection, or a track the
\* interpolator's constructor refuses, throws before emulators.set
AppStartLoaded(k) ==
    /\ k \in DOMAIN loading
    /\ loading' = RemoveAt(loading, k)
    /\ IF \/ parseGpxFile(loading[k].route).settled = "rejected"
          \/ Len(parseGpxFile(loading[k].route).value) < MIN_GPX_POINTS
       THEN /\ appResult' = AppThrew("none")
            /\ UNCHANGED <<emulators, instances>>
       ELSE /\ instances' = Append(instances,
                   start(EmulatorInstance(loading[k].emulatorId, loading[k].route,
                                          parseGpxFile(loading[k].route).value)))
            /\ emulators' = [emulators EXCEPT ![loading[k].emulatorId] =
                                Len(instances) + 1]
            /\ UNCHANGED appResult
    /\ UNCHANGED <<isInitialized, appCalls, controllerVars, now, randomState>>

\* App.stop(emulatorId) up to its await; emulator!.stop() on a missing entry
\* is a TypeError
AppStop(emulatorId) ==
    /\ appCalls < MaxAppCalls
    /\ InUse(emulatorId)
    /\ appCalls' = appCalls + 1
    /\ now' = now + EMULATOR_INTERVAL_MS
    /\ IF ~isInitialized \/ emulators[emulatorId] = NoEmulator
       THEN /\ appResult' = AppThrew("none")
            /\ UNCHANGED instances
       ELSE /\ instances' = [instances EXCEPT ![emulators[emulatorId]] = stop(@)]
            /\ WithinApp(instances', loading)
            /\ appResult' = IF ~instances[emulators[emulatorId]].isEngineOn
                            THEN AppReturned("none")
                            ELSE appResult
    /\ UNCHANGED <<emulators, isInitialized, loading, controllerVars, randomState>>

\* resetApp() reaching the controller of the first vehicle only
ResetAppFirstOnly ==
    /\ appCalls < MaxAppCalls
    /\ appCalls' = appCalls + 1
    /\ now' = now + EMULATOR_INTERVAL_MS
    /\ instances' = [o \in DOMAIN instances |->
                        IF o = emulators["v1"] THEN stop(instances[o])
                        ELSE instances[o]]
    /\ WithinApp(instances', loading)
    /\ emulators' = [id \in Vehicles |-> NoEmulator]
    /\ isInitialized' = FALSE
    /\ appResult' = AppReturned("none")
    /\ UNCHANGED <<loading, controllerVars, randomState>>

\* resetApp(): stop() is called on every controller of the map, each call
\* running to its first await, then the map is cleared
ResetApp ==
    /\ appCalls < MaxAppCalls
    /\ appCalls' = appCalls + 1
    /\ now' = now + EMULATOR_INTERVAL_MS
    /\ instances' = [o \in DOMAIN instances |->
                        IF o \in Registered THEN stop(instances[o])
                        ELSE instances[o]]
    /\ WithinApp(instances', loading)
    /\ emulators' = [id \in Vehicles |-> NoEmulator]
    /\ isInitialized' = FALSE
    /\ appResult' = AppReturned("none")
    /\ UNCHANGED <<loading, controllerVars, randomState>>

\* a controller's start() after sendOnRequest has settled; App.start, which
\* awaits it, returns or throws with it
InstStartSettled(o, i) ==
    /\ o \in DOMAIN instances
    /\ i \in DOMAIN instances[o].inflight
    /\ instances[o].inflight[i].caller = "start"
    /\ \E net \in NetworkOutcomes :
          /\ instances' = [instances EXCEPT ![o] = startResumed(@, i, net)]
          /\ appResult' = IF sendOnRequest(net).settled = "resolved"
                          THEN AppReturned(net)
                          ELSE AppThrew(net)
    /\ UNCHANGED <<emulators, isInitialized, loading, appCalls>>
    /\ UNCHANGED <<controllerVars, now, randomState>>

\* a controller's stop() after its final sendCycleData has settled
InstStopCycleSettled(o, i) ==
    /\ o \in DOMAIN instances
    /\ i \in DOMAIN instances[o].inflight
    /\ instances[o].inflight[i].caller = "stop"
    /\ instances[o].inflight[i].request = "cycle"
    /\ \E net \in NetworkOutcomes :
          /\ instances' = [instances EXCEPT ![o] = stopCycleResumed(@, i, net)]
          /\ appResult' = IF sendCycleData(net).settled = "resolved"
                          THEN appResult
                          ELSE AppThrew(net)
    /\ UNCHANGED <<emulators, isInitialized, loading, appCalls>>
    /\ UNCHANGED <<controllerVars, now, randomState>>

\* a controller's stop() after sendOffRequest has settled; its caller (App.stop,
\* or the catch handler of resetApp) gets the outcome
InstStopOffSettled(o, i) ==
    /\ o \in DOMAIN instances
    /\ i \in DOMAIN instances[o].inflight
    /\ instances[o].inflight[i].caller = "stop"
    /\ instances[o].inflight[i].request = "off"
    /\ \E net \in NetworkOutcomes :
          /\ instances' = [instances EXCEPT ![o] = stopOffResumed(@, i, net)]
          /\ appResult' = IF sendOffRequest(net).settled = "resolved"
                          THEN AppReturned(net)
                          ELSE AppThrew(net)
    /\ UNCHANGED <<emulators, isInitialized, loading, appCalls>>
    /\ UNCHANGED <<controllerVars, now, randomState>>

\* the sampler of a controller fires
InstGpsGeneratorTick(o) ==
    /\ o \in DOMAIN instances
    /\ \E t \in instances[o].timers : t.kind = "gps"
    /\ instances' = [instances EXCEPT ![o] =
           [sampled([@ EXCEPT !.randomState = randomState])
               EXCEPT !.randomState = 0]]
    /\ randomState' =
           sampled([instances[o] EXCEPT !.randomState = randomState]).randomState
    /\ UNCHANGED <<emulators, isInitialized, loading, appCalls, appResult>>
    /\ UNCHANGED <<controllerVars, now>>

\* the final flush of a controller's endTripNormally() has settled
InstEndTripSettled(o, i) ==
    /\ o \in DOMAIN instances
    /\ i \in DOMAIN instances[o].inflight
    /\ instances[o].inflight[i].caller = "endTrip"
    /\ instances' = [instances EXCEPT ![o] =
           endTripNormallyResumed([@ EXCEPT !.inflight = RemoveAt(@, i)])]
    /\ UNCHANGED <<emulators, isInitialized, loading, appCalls, appResult>>
    /\ UNCHANGED <<controllerVars, now, randomState>>

RegistryNext ==
    \/ InitializeEmulators
    \/ \E id \in Vehicles, route \in Routes : AppStart(id, route)
    \/ \E k \in DOMAIN loading : AppStartLoaded(k)
    \/ \E id \in Vehicles : AppStop(id)
    \/ ResetApp
    \/ \E o \in DOMAIN instances, i \in 1..MaxInFlight : InstStartSettled(o, i)
    \/ \E o \in DOMAIN instances, i \in 1..MaxInFlight : InstStopCycleSettled(o, i)
    \/ \E o \in DOMAIN instances, i \in 1..MaxInFlight : InstStopOffSettled(o, i)
    \/ \E o \in DOMAIN instances : InstGpsGeneratorTick(o)
    \/ \E o \in DOMAIN instances, i \in 1..MaxInFlight : InstEndTripSettled(o, i)

RegistrySpec == RegistryInit /\ [][RegistryNext]_<<vars, appVars>>

----------------------------------------------------------------------------
(* The Track Interpolator on its own: it is constructed over a track and   *)
(* then asked for one sample after the other, one sampling interval apart. *)
(* generatedGpsDataBuffer holds the samples returned, calls counts the     *)
(* calls of generateNextGpsData, lastResult tells how the last call ended. *)

\* two timestamped waypoints 10 s apart
TenSecondTrack ==
    <<[lat |-> 0, lon |-> 0, time |-> 0],
      [lat |-> 0, lon |-> 10, time |-> 10000]>>

\* two waypoints without timestamps, 90 grid units (500 m) apart
HalfKilometreTrack ==
    <<[lat |-> 0, lon |-> 0, time |-> NoDate],
      [lat |-> 90, lon |-> 0, time |-> NoDate]>>

\* timestamps 2.5 s apart, then equal, then decreasing
UnevenTimedTrack ==
    <<[lat |-> 0, lon |-> 0, time |-> 4000],
      [lat |-> 0, lon |-> 5, time |-> 6500],
      [lat |-> 2, lon |-> 5, time |-> 6500],
      [lat |-> 2, lon |-> 7, time |-> 5000]>>

\* without timestamps: 127 m (2.54 intervals), 122 m (2.44 intervals), then a
\* coincident waypoint
UnevenUntimedTrack ==
    <<[lat |-> 0, lon |-> 0, time |-> NoDate],
      [lat |-> 23, lon |-> 0, time |-> NoDate],
      [lat |-> 23, lon |-> 22, time |-> NoDate],
      [lat |-> 23, lon |-> 22, time |-> NoDate]>>

\* a timestamp on one endpoint only of a 100 m segment, on both of the next
HalfTimedTrack ==
    <<[lat |-> 0, lon |-> 0, time |-> 1000],
      [lat |-> 0, lon |-> 18, time |-> NoDate],
      [lat |-> 0, lon |-> 20, time |-> 9000],
      [lat |-> 0, lon |-> 22, time |-> 12000]>>

\* the tracks an interpolator is constructed over, the empty one and the
\* one-waypoint one among them
GeneratorTracks ==
    {<<>>, ShortTrack, TimedTrack, UntimedTrack, BriefTimedTrack,
     TenSecondTrack, HalfKilometreTrack, UnevenTimedTrack, UnevenUntimedTrack,
     HalfTimedTrack}

\* the fields the constructor has assigned when it throws
Unbuilt ==
    [currentTrackPointIndex |-> 0,
     nextTrackPointIndex |-> 1,
     step |-> 0,
     totalStepsBetweenPoints |-> 0,
     currentLat |-> 0,
     currentLon |-> 0,
     previousGpsWithTime |-> NoPrevious,
     totalDistance |-> 0]

\* new GpsDataGenerator(mdn, pts, EMULATOR_INTERVAL_MS) without the check of
\* the number of waypoints
newGpsDataGeneratorUnchecked(pts) ==
    IF Len(pts) < 1
    THEN [settled |-> "threw", value |-> Unbuilt]
    ELSE [settled |-> "returned", value |-> GpsDataGenerator(pts)]

\* new GpsDataGenerator(mdn, pts, EMULATOR_INTERVAL_MS)
newGpsDataGenerator(pts) ==
    IF Len(pts) < MIN_GPX_POINTS
    THEN [settled |-> "threw", value |-> Unbuilt]
    ELSE [settled |-> "returned", value |-> GpsDataGenerator(pts)]

GeneratorInit ==
    /\ gpxTrackPoints \in GeneratorTracks
    /\ gpsGenerator = Unbuilt
    /\ generatedGpsDataBuffer = <<>>
    /\ onTime = NoDate
    /\ gpsGeneratorInterval = NoTimer
    /\ serverSenderInterval = NoTimer
    /\ isRunning = FALSE
    /\ isEngineOn = FALSE
    /\ timers = {}
    /\ inflight = <<>>
    /\ now = 0
    /\ randomState \in Seeds
    /\ calls = 0
    /\ lastResult = NoResult
    /\ App

\* what the interpolator's caller does not touch
generatorFrame ==
    <<gpxTrackPoints, onTime, gpsGeneratorInterval, serverSenderInterval,
      isRunning, isEngineOn, timers, inflight, appVars>>

\* new GpsDataGenerator(...) over the track
Construct ==
    /\ lastResult = NoResult
    /\ gpsGenerator' = newGpsDataGenerator(gpxTrackPoints).value
    /\ lastResult' = [op |-> "new",
                      status |-> newGpsDataGenerator(gpxTrackPoints).settled,
                      net |-> "none"]
    /\ UNCHANGED <<generatedGpsDataBuffer, now, randomState, calls>>
    /\ UNCHANGED generatorFrame

\* an interpolator exists: the constructor has returned
Constructed ==
    /\ lastResult # NoResult
    /\ lastResult # [op |-> "new", status |-> "threw", net |-> "none"]

\* what generateNextGpsData() returns one sampling interval later
NextGpsData ==
    generateNextGpsData(gpsGenerator, gpxTrackPoints,
        positionNoise(nextRandom(randomState)),
        positionNoise(nextRandom(nextRandom(randomState))),
        now + EMULATOR_INTERVAL_MS)

\* generateNextGpsData() on the interpolator
GenerateNext ==
    /\ Constructed
    /\ calls < MaxNextCalls
    /\ calls' = calls + 1
    /\ now' = now + EMULATOR_INTERVAL_MS
    /\ gpsGenerator' = NextGpsData.gen
    /\ IF NextGpsData.isNull
       THEN /\ lastResult' = [op |-> "next", status |-> "null", net |-> "none"]
            /\ UNCHANGED <<generatedGpsDataBuffer, randomState>>
       ELSE /\ lastResult' = [op |-> "next", status |-> "sample", net |-> "none"]
            /\ generatedGpsDataBuffer' =
                   Append(generatedGpsDataBuffer, NextGpsData.data)
            /\ randomState' = nextRandom(nextRandom(randomState))
    /\ UNCHANGED generatorFrame

GeneratorNext ==
    \/ Construct
    \/ GenerateNext

GeneratorSpec == GeneratorInit /\ [][GeneratorNext]_<<vars, appVars>>

----------------------------------------------------------------------------
(* The Motion Calculator alone: its three functions applied to a previous  *)
(* reading and a current one. As in calculateMotionMetrics, the previous   *)
(* reading is previousGpsWithTime and the current one is the position      *)
(* (currentLat, currentLon) at the time now.                               *)

\* the largest coordinate, in grid units, of the readings drawn
MaxCoordinate == 12

\* coordinates either side of the origin, one grid unit and MaxCoordinate away
MotionCoordinates == {0 - MaxCoordinate, -1, 0, 1, MaxCoordinate}

\* getTime() of the two readings: equal, one and ten sampling intervals apart,
\* in either order
MotionTimes == {0, EMULATOR_INTERVAL_MS, 10 * EMULATOR_INTERVAL_MS}

\* new GpsWithTime(currentLat, currentLon, timestamp)
currentGpsWithTime(g, timestamp) ==
    [latitude |-> g.currentLat, longitude |-> g.currentLon,
     intervalAt |-> timestamp]

MotionInit ==
    /\ gpxTrackPoints = <<>>
    /\ \E lat1 \in MotionCoordinates, lon1 \in MotionCoordinates,
          lat2 \in MotionCoordinates, lon2 \in MotionCoordinates,
          time1 \in MotionTimes :
          gpsGenerator = [Unbuilt EXCEPT
              !.previousGpsWithTime = [latitude |-> lat1, longitude |-> lon1,
                                       intervalAt |-> time1],
              !.currentLat = lat2,
              !.currentLon = lon2]
    /\ generatedGpsDataBuffer = <<>>
    /\ onTime = NoDate
    /\ gpsGeneratorInterval = NoTimer
    /\ serverSenderInterval = NoTimer
    /\ isRunning = FALSE
    /\ isEngineOn = FALSE
    /\ timers = {}
    /\ inflight = <<>>
    /\ now \in MotionTimes
    /\ randomState = 0
    /\ calls = 0
    /\ lastResult = NoResult
    /\ App

\* calculateSpeed, calculateDirection and calculateDistance on the two readings;
\* the three results are kept as the fields of one reading
Calculate ==
    /\ lastResult = NoResult
    /\ LET previous == gpsGenerator.previousGpsWithTime
           current == currentGpsWithTime(gpsGenerator, now)
       IN  generatedGpsDataBuffer' =
               <<[lat |-> current.latitude, lon |-> current.longitude,
                  speed |-> calculateSpeed(previous, current),
                  direction |-> calculateDirection(previous, current),
                  totalDistance |-> calculateDistance(previous, current),
                  intervalAt |-> now]>>
    /\ lastResult' = [op |-> "calculate", status |-> "returned", net |-> "none"]
    /\ UNCHANGED <<gpsGenerator, now, randomState, calls>>
    /\ UNCHANGED generatorFrame

MotionNext == Calculate

MotionSpec == MotionInit /\ [][MotionNext]_<<vars, appVars>>

----------------------------------------------------------------------------
(* The earlier GpsDataGenerator of the repository, which checks for the    *)
(* end of the path before it reads the two waypoints of the segment and    *)
(* advances its cursor after it has built the sample. Its fields are those *)
(* of the later one; previousGpsInfo is kept in previousGpsWithTime.       *)

\* calculateStepsBetweenPoints: one step per sampling interval between the
\* timestamps, or one step per 10 m
earlierCalculateStepsBetweenPoints(g, pts) ==
    IF g.currentTrackPointIndex >= Len(pts) - 1
    THEN [g EXCEPT !.totalStepsBetweenPoints = 1]
    ELSE LET currentPoint == PointAt(pts, g.currentTrackPointIndex)
             nextPoint == PointAt(pts, g.nextTrackPointIndex)
             timeDiffMs == nextPoint.time - currentPoint.time
             distance == calculateDistance(createGpsFromGpx(currentPoint),
                                           createGpsFromGpx(nextPoint))
             total == IF currentPoint.time # NoDate /\ nextPoint.time # NoDate
                      THEN Max(1, timeDiffMs \div EMULATOR_INTERVAL_MS)
                      ELSE Max(1, distance \div 10)
         IN  [g EXCEPT !.totalStepsBetweenPoints = total, !.step = 0]

\* new GpsDataGenerator(mdn, pts, emulatorIntervalMs)
earlierNewGpsDataGenerator(pts) ==
    IF Len(pts) < 2
    THEN [settled |-> "threw", value |-> Unbuilt]
    ELSE [settled |-> "returned",
          value |-> earlierCalculateStepsBetweenPoints(
                        [Unbuilt EXCEPT !.currentLat = pts[1].lat,
                                        !.currentLon = pts[1].lon], pts)]

earlierIsEndOfPath(g, pts) ==
    /\ g.currentTrackPointIndex >= Len(pts) - 1
    /\ g.step >= g.totalStepsBetweenPoints

\* the indices of gpxTrackPoints a generateNextGpsData() call reads
earlierWaypointsRead(g, pts) ==
    IF earlierIsEndOfPath(g, pts)
    THEN {}
    ELSE {g.currentTrackPointIndex, g.nextTrackPointIndex}

\* generateNextGpsData from this.step++ to the end
earlierAdvance(g, pts) ==
    LET g1 == [g EXCEPT !.step = g.step + 1]
    IN  IF g1.step >= g1.totalStepsBetweenPoints
        THEN LET g2 == [g1 EXCEPT
                           !.currentTrackPointIndex = g1.nextTrackPointIndex,
                           !.nextTrackPointIndex = g1.nextTrackPointIndex + 1,
                           !.step = 0]
             IN  IF g2.currentTrackPointIndex < Len(pts) - 1
                 THEN earlierCalculateStepsBetweenPoints(g2, pts)
                 ELSE g2
        ELSE g1

\* generateNextGpsData: null at the end of the path; a TypeError when nextPoint
\* is undefined (gpxTrackPoints[nextTrackPointIndex] beyond the last
\* waypoint), thrown on nextPoint.lat before any field is assigned; otherwise
\* the sample, with the cursor advanced after it
earlierGenerateNextGpsData(g, pts, noiseLat, noiseLon, timestamp) ==
    IF earlierIsEndOfPath(g, pts)
    THEN [gen |-> g, outcome |-> "null", data |-> NoGps]
    ELSE IF g.nextTrackPointIndex >= Len(pts)
    THEN [gen |-> g, outcome |-> "threw", data |-> NoGps]
    ELSE LET moved == interpolateAndAddNoise(g,
                          PointAt(pts, g.currentTrackPointIndex),
                          PointAt(pts, g.nextTrackPointIndex),
                          noiseLat, noiseLon)
             r == measureGpsData(moved, timestamp)
         IN  [gen |-> earlierAdvance(r.gen, pts),
              outcome |-> "sample",
              data |-> r.data]

\* new GpsDataGenerator(...) over the track
EarlierConstruct ==
    /\ lastResult = NoResult
    /\ gpsGenerator' = earlierNewGpsDataGenerator(gpxTrackPoints).value
    /\ lastResult' = [op |-> "new",
                      status |-> earlierNewGpsDataGenerator(gpxTrackPoints).settled,
                      net |-> "none"]
    /\ UNCHANGED <<generatedGpsDataBuffer, now, randomState, calls>>
    /\ UNCHANGED generatorFrame

\* what generateNextGpsData() does one sampling interval later
EarlierNextGpsData ==
    earlierGenerateNextGpsData(gpsGenerator, gpxTrackPoints,
        positionNoise(nextRandom(randomState)),
        positionNoise(nextRandom(nextRandom(randomState))),
        now + EMULATOR_INTERVAL_MS)

\* generateNextGpsData() on the interpolator
EarlierGenerateNext ==
    /\ Constructed
    /\ calls < MaxNextCalls
    /\ calls' = calls + 1
    /\ now' = now + EMULATOR_INTERVAL_MS
    /\ gpsGenerator' = EarlierNextGpsData.gen
    /\ lastResult' = [op |-> "next", status |-> EarlierNextGpsData.outcome,
                      net |-> "none"]
    /\ IF EarlierNextGpsData.outcome = "sample"
       THEN /\ generatedGpsDataBuffer' =
                   Append(generatedGpsDataBuffer, EarlierNextGpsData.data)
            /\ randomState' = nextRandom(nextRandom(randomState))
       ELSE UNCHANGED <<generatedGpsDataBuffer, randomState>>
    /\ UNCHANGED generatorFrame

EarlierGeneratorNext ==
    \/ EarlierConstruct
    \/ EarlierGenerateNext

EarlierGeneratorSpec == GeneratorInit /\ [][EarlierGeneratorNext]_<<vars, appVars>>

----------------------------------------------------------------------------
(* Steps of the awaited continuations, and what the claims look at *)

StartSettledStep == \E i \in DOMAIN inflight : StartSettled(i)
StopCycleSettledStep == \E i \in DOMAIN inflight : StopCycleSettled(i)
StopOffSettledStep == \E i \in DOMAIN inflight : StopOffSettled(i)
DispatchSettledStep == \E i \in DOMAIN inflight : DispatchSettled(i)
EndTripSettledStep == \E i \in DOMAIN inflight : EndTripSettled(i)

ControllerState ==
    <<gpsGenerator, generatedGpsDataBuffer, onTime, gpsGeneratorInterval,
      serverSenderInterval, isRunning, isEngineOn>>

ProducersHalted ==
    /\ gpsGeneratorInterval = NoTimer
    /\ serverSenderInterval = NoTimer
    /\ timers = {}

SamplesInProductionOrder(q) ==
    \A j \in 1..(Len(q) - 1) : q[j].intervalAt < q[j + 1].intervalAt

RequestsOf(kind) == {i \in DOMAIN inflight : inflight[i].request = kind}

\* the step posts nothing: every request on its way was on its way before
NothingSent == \/ inflight' = inflight
               \/ \E i \in DOMAIN inflight : inflight' = RemoveAt(inflight, i)

\* the step posts no trip-end message
NoTripEndSent ==
    \/ NothingSent
    \/ /\ Len(inflight') = Len(inflight) + 1
       /\ SubSeq(inflight', 1, Len(inflight)) = inflight
       /\ inflight'[Len(inflight')].request # "off"

----------------------------------------------------------------------------
(* C1: start() on a controller whose producers are active sends nothing,   *)
(* schedules nothing, returns normally and leaves isRunning, isEngineOn,   *)
(* the trip-start time, the staging buffer and the cursor unchanged.       *)
C1_StartWhileRunningIsNoOp ==
    [][(isRunning /\ Start) =>
          /\ UNCHANGED ControllerState
          /\ timers' = timers
          /\ inflight' = inflight
          /\ lastResult' = [op |-> "start", status |-> "returned", net |-> "none"]]_vars

\* a second start() has returned on a running controller that holds samples
C1_Reached ==
    /\ isRunning
    /\ lastResult = [op |-> "start", status |-> "returned", net |-> "none"]
    /\ Len(generatedGpsDataBuffer) > 0
    /\ timers # {}

(* C2: stop() in all its steps keeps the trip-start time and the cursor,   *)
(* and a following start() keeps both as well: its trip-start message     *)
(* carries the time stamped by the first start(), not the time of the      *)
(* resume, and the position and distance of the cursor held since stop().  *)
C2_ResumeKeepsTripStartAndCursor ==
    [][/\ (Stop \/ StopCycleSettledStep \/ StopOffSettledStep \/ Start
              \/ (StartSettledStep /\ lastResult'.status = "returned"))
          => /\ gpsGenerator' = gpsGenerator
             /\ onTime # NoDate => onTime' = onTime
       /\ (Start /\ ~isRunning /\ onTime # NoDate)
          => inflight' = Append(inflight,
                 OnRequest(getCurrentGpsInfo(gpsGenerator, now), onTime))]_vars

\* after a stop() that sent its trip-end message, a start() made later than
\* the trip began is on its way with the cursor in mid-track
C2_Reached ==
    /\ lastResult.op = "stop"
    /\ lastResult.net # "none"
    /\ gpsGenerator.previousGpsWithTime # NoPrevious
    /\ ~isEndOfPath(gpsGenerator, gpxTrackPoints)
    /\ \E i \in DOMAIN inflight :
          /\ inflight[i].request = "on"
          /\ inflight[i].onTime < now
          /\ inflight[i].onTime = onTime

(* C3: when the trip-start message fails to send, start() hard-resets the  *)
(* controller (no producer, isRunning and isEngineOn false, trip-start     *)
(* time cleared, buffer empty, cursor at the first waypoint) and throws.   *)
C3_FailedStartAborts ==
    [][(StartSettledStep /\ lastResult'.net = "fail") =>
          /\ lastResult'.status = "threw"
          /\ ProducersHalted'
          /\ ~isRunning'
          /\ ~isEngineOn'
          /\ onTime' = NoDate
          /\ generatedGpsDataBuffer' = <<>>
          /\ gpsGenerator' = GpsDataGenerator(gpxTrackPoints)]_vars

(* C4: stop() with the engine on and n > 0 buffered samples posts exactly  *)
(* one batch, holding those n samples in production order, with both       *)
(* producers halted, and posts the trip-end message only once that batch   *)
(* has settled; with an empty buffer it posts the trip-end message only.   *)
C4_StopFlushesOnceBeforeTripEnd ==
    [][/\ (Stop /\ isEngineOn /\ Len(generatedGpsDataBuffer) > 0)
          => /\ inflight' = Append(inflight,
                     CycleRequest("stop", generatedGpsDataBuffer))
             /\ SamplesInProductionOrder(generatedGpsDataBuffer)
             /\ ProducersHalted'
       /\ (Stop /\ isEngineOn /\ Len(generatedGpsDataBuffer) = 0)
          => /\ inflight' = Append(inflight,
                     OffRequest(getCurrentGpsInfo(gpsGenerator, now), onTime, now))
             /\ ProducersHalted'
       /\ StopCycleSettledStep
          => \E i \in DOMAIN inflight :
                /\ inflight[i].caller = "stop"
                /\ inflight[i].request = "cycle"
                /\ inflight' = Append(RemoveAt(inflight, i),
                       OffRequest(getCurrentGpsInfo(gpsGenerator, now), onTime, now))
       /\ StopOffSettledStep => NothingSent]_vars

\* stop() has posted the three samples of a trip as its final batch
C4_Reached ==
    /\ ProducersHalted
    /\ \E i \in DOMAIN inflight :
          /\ inflight[i].caller = "stop"
          /\ inflight[i].request = "cycle"
          /\ Len(inflight[i].samples) = 3
          /\ inflight[i].samples = generatedGpsDataBuffer
    /\ RequestsOf("off") = {}

(* C5: stop() on a controller whose engine is off sends nothing, returns   *)
(* normally and leaves isRunning, isEngineOn, the trip-start time, the     *)
(* buffer, the timers and the cursor unchanged.                            *)
C5_StopWhileEngineOffIsNoOp ==
    [][(~isEngineOn /\ Stop) =>
          /\ UNCHANGED ControllerState
          /\ timers' = timers
          /\ inflight' = inflight
          /\ lastResult' = [op |-> "stop", status |-> "returned", net |-> "none"]]_vars

\* stop() has returned at once on a controller that was never started
C5_Reached ==
    /\ ~isEngineOn
    /\ lastResult = [op |-> "stop", status |-> "returned", net |-> "none"]

(* C6: when the trip-end message fails to send, stop() ends with the       *)
(* engine off, isRunning false and both producers halted, keeps the        *)
(* trip-start time and the cursor, and throws to its caller.               *)
C6_FailedTripEndIsSurfaced ==
    [][(StopOffSettledStep /\ lastResult'.net = "fail") =>
          /\ ~isEngineOn'
          /\ ~isRunning'
          /\ ProducersHalted'
          /\ onTime' = onTime
          /\ gpsGenerator' = gpsGenerator
          /\ lastResult'.status = "threw"]_vars

(* C7: a trip ended by end-of-track posts no trip-end message, and once    *)
(* its final flush has settled the controller holds a fresh interpolator   *)
(* over the same waypoints, no trip-start time, isEngineOn = false and     *)
(* isRunning = false.                                                      *)
C7_EndOfTrackResetsWithoutTripEnd ==
    [][/\ (GpsGeneratorTick \/ EndTripSettledStep)
          => NoTripEndSent
       /\ EndTripSettledStep
          => /\ gpsGenerator' = GpsDataGenerator(gpxTrackPoints)
             /\ onTime' = NoDate
             /\ ~isEngineOn'
             /\ ~isRunning']_vars

(* C8: hardStop(), whatever the state it is called in, posts nothing,      *)
(* returns normally and leaves both producers cancelled, isRunning and     *)
(* isEngineOn false, the trip-start time cleared, the buffer empty and a   *)
(* fresh interpolator at the first waypoint.                               *)
C8_HardStopAlwaysResets ==
    [][HardStop =>
          /\ inflight' = inflight
          /\ ProducersHalted'
          /\ ~isRunning'
          /\ ~isEngineOn'
          /\ onTime' = NoDate
          /\ generatedGpsDataBuffer' = <<>>
          /\ gpsGenerator'.currentTrackPointIndex = 0
          /\ gpsGenerator'.nextTrackPointIndex = 1
          /\ gpsGenerator'.step = 0
          /\ gpsGenerator'.totalDistance = 0
          /\ gpsGenerator'.previousGpsWithTime = NoPrevious
          /\ gpsGenerator'.currentLat = gpxTrackPoints[1].lat
          /\ gpsGenerator'.currentLon = gpxTrackPoints[1].lon
          /\ lastResult' = [op |-> "hardStop", status |-> "returned",
                            net |-> "none"]]_vars

\* hardStop() has returned after the trip had produced samples and while a
\* request of the controller was still unanswered
C8_Reached ==
    /\ lastResult.op = "hardStop"
    /\ now > 0
    /\ inflight # <<>>
    /\ ProducersHalted
    /\ generatedGpsDataBuffer = <<>>

(* C9: a step in which the controller stops running (stop(), end-of-track  *)
(* or hardStop()) cancels the sampler and the dispatcher together; the two *)
(* timers are always both scheduled or both cancelled, they are scheduled  *)
(* again only by a start(), and stopIntervals() on cancelled timers        *)
(* changes nothing, also when stop() runs during the flush of an ended     *)
(* trip.                                                                   *)
C9_ProducersCancelledTogether ==
    [][/\ (isRunning /\ ~isRunning') => ProducersHalted'
       /\ ((Stop /\ isEngineOn) \/ HardStop) => ProducersHalted'
       /\ (gpsGeneratorInterval' = NoTimer) <=> (serverSenderInterval' = NoTimer)
       /\ (\E t \in timers' : t.kind = "gps") <=> (\E t \in timers' : t.kind = "send")
       /\ (timers = {} /\ timers' # {}) => StartSettledStep
       /\ ProducersHalted => stopIntervals(This) = This
       /\ stopIntervals(stopIntervals(This)) = stopIntervals(This)]_vars

\* stop() has run while the final flush of an ended trip was still unanswered
C9_Reached ==
    /\ ProducersHalted
    /\ ~isRunning
    /\ \E i \in DOMAIN inflight : inflight[i].caller = "endTrip"
    /\ \E i \in DOMAIN inflight : inflight[i].caller = "stop"

(* C10: at most one batch dispatch of the controller is unanswered at any  *)
(* time.                                                                   *)
C10_OneBatchInFlight == Cardinality(RequestsOf("cycle")) <= 1

(* C11: a periodic batch whose send failed is absorbed: the dispatcher's   *)
(* callback returns normally, the batch is gone and is not put back in the *)
(* buffer, isRunning, isEngineOn, the trip-start time, the cursor and both *)
(* timers are unchanged, and a sampler firing before end-of-track appends  *)
(* one sample whatever requests are in flight.                             *)
C11_FailedDispatchAbsorbed ==
    [][/\ (DispatchSettledStep /\ lastResult'.net = "fail")
          => /\ lastResult'.status = "returned"
             /\ UNCHANGED ControllerState
             /\ timers' = timers
             /\ \E i \in DOMAIN inflight :
                   /\ inflight[i].caller = "dispatch"
                   /\ inflight' = RemoveAt(inflight, i)
       /\ (GpsGeneratorTick
             /\ ~isEndOfPath(advanceToNextStepOrSegment(gpsGenerator, gpxTrackPoints),
                             gpxTrackPoints))
          => /\ Len(generatedGpsDataBuffer') = Len(generatedGpsDataBuffer) + 1
             /\ SubSeq(generatedGpsDataBuffer', 1, Len(generatedGpsDataBuffer))
                    = generatedGpsDataBuffer
             /\ timers' = timers
             /\ inflight' = inflight]_vars

\* a periodic batch has failed on a controller that is still running with both
\* timers, and the sampler has appended a sample produced after that batch
C11_Reached ==
    /\ lastResult = [op |-> "dispatch", status |-> "returned", net |-> "fail"]
    /\ isRunning
    /\ isEngineOn
    /\ \E t \in timers : t.kind = "gps"
    /\ \E t \in timers : t.kind = "send"
    /\ Len(generatedGpsDataBuffer) > 0

(* C12: a dispatcher firing on a non-empty buffer posts one batch holding  *)
(* all buffered samples and leaves the buffer empty in the same step, so   *)
(* no sample is both in the buffer and in a batch of the dispatcher, and a *)
(* sample produced during the send is appended to the new buffer; on an    *)
(* empty buffer the firing posts nothing and changes nothing.              *)
C12_DispatcherSwapsBuffer ==
    [][/\ (ServerSenderTick /\ Len(generatedGpsDataBuffer) > 0)
          => /\ inflight' = Append(inflight,
                     CycleRequest("dispatch", generatedGpsDataBuffer))
             /\ generatedGpsDataBuffer' = <<>>
       /\ (ServerSenderTick /\ Len(generatedGpsDataBuffer) = 0)
          => /\ inflight' = inflight
             /\ UNCHANGED ControllerState
             /\ timers' = timers
             /\ lastResult' = lastResult
       /\ \A i \in DOMAIN inflight' :
             inflight'[i].caller = "dispatch"
             => \A j \in DOMAIN inflight'[i].samples :
                   \A k \in DOMAIN generatedGpsDataBuffer' :
                      inflight'[i].samples[j].intervalAt
                          < generatedGpsDataBuffer'[k].intervalAt]_vars

\* while a batch of the dispatcher is unanswered, the buffer holds a sample
\* produced after the swap
C12_Reached ==
    /\ \E i \in DOMAIN inflight :
          /\ inflight[i].caller = "dispatch"
          /\ Len(inflight[i].samples) > 0
    /\ Len(generatedGpsDataBuffer) > 0
    /\ isRunning

----------------------------------------------------------------------------
(* What the claims about the Fleet Registry look at *)

\* the controllers that have a sampler or a dispatcher scheduled
Active(insts) == {o \in DOMAIN insts : insts[o].timers # {}}

(* C13: resetApp() hard-stops every controller of the map: it posts no     *)
(* message for any of them, leaves none of them with a timer, and empties  *)
(* the map.                                                                *)
C13_ResetHardStopsSilently ==
    [][ResetApp =>
          /\ \A id \in Vehicles : emulators'[id] = NoEmulator
          /\ \A o \in Registered :
                /\ instances'[o].timers = {}
                /\ instances'[o].inflight = instances[o].inflight]_<<vars, appVars>>

\* the answer to a request of stop() on controller o arrives and is a failure
StopFailedStep(o) ==
    /\ \E i \in DOMAIN instances[o].inflight :
          InstStopCycleSettled(o, i) \/ InstStopOffSettled(o, i)
    /\ appResult'.net = "fail"

(* C14: resetApp() calls stop() on every controller of the map and empties *)
(* the map whatever becomes of those calls; when a message of one          *)
(* controller's stop() fails, the stop() of every other controller goes on *)
(* untouched and the map stays as it is.                                   *)
C14_ResetReachesEveryController ==
    [][/\ ResetApp =>
             /\ \A o \in Registered : instances'[o] = stop(instances[o])
             /\ \A id \in Vehicles : emulators'[id] = NoEmulator
       /\ \A o \in DOMAIN instances :
             StopFailedStep(o) =>
                /\ \A p \in DOMAIN instances \ {o} : instances'[p] = instances[p]
                /\ emulators' = emulators]_<<vars, appVars>>

\* two vehicles were started and then reset: the trip-end message of one has
\* failed, the stop() of the other is under way, and the map is empty
C14_Reached ==
    /\ ~isInitialized
    /\ appCalls = 3
    /\ appResult = AppReturned("fail")
    /\ \A id \in Vehicles : emulators[id] = NoEmulator
    /\ \E o, p \in DOMAIN instances :
          /\ instances[o].vehicleId # instances[p].vehicleId
          /\ ~instances[o].isEngineOn
          /\ instances[o].onTime # NoDate
          /\ instances[o].inflight = <<>>
          /\ \E i \in DOMAIN instances[p].inflight :
                instances[p].inflight[i].caller = "stop"

\* the controller the map holds for a vehicle is there to be resumed
Resumable(emulatorId) ==
    /\ emulators[emulatorId] # NoEmulator
    /\ getStatus(instances[emulators[emulatorId]]) \in {"running", "stopped"}

Unusable(route) ==
    \/ parseGpxFile(route).settled = "rejected"
    \/ Len(parseGpxFile(route).value) < MIN_GPX_POINTS

(* C16: when the track of a start() request is unreadable or has fewer     *)
(* than 2 waypoints, start() throws to its caller, the map keeps exactly   *)
(* the entries it had, and no controller (its fields, timers and pending   *)
(* requests) changes.                                                      *)
C16_FailedSetupAbortsOnlyItself ==
    [][\A k \in DOMAIN loading :
          (AppStartLoaded(k) /\ Unusable(loading[k].route)) =>
             /\ appResult' = AppThrew("none")
             /\ emulators' = emulators
             /\ instances' = instances]_<<vars, appVars>>

\* the second request, a start() for another vehicle (the clock, which only
\* stop() and resetApp() advance, has not moved), has thrown while the
\* controller of the first vehicle runs with a sample in its buffer
C16_Reached ==
    /\ isInitialized
    /\ appCalls = 2
    /\ now = 0
    /\ loading = <<>>
    /\ appResult = AppThrew("none")
    /\ emulators["v2"] = NoEmulator
    /\ emulators["v1"] # NoEmulator
    /\ instances[emulators["v1"]].timers # {}
    /\ Len(instances[emulators["v1"]].generatedGpsDataBuffer) > 0

(* C17: while the registry is in service, every controller that has a      *)
(* sampler or a dispatcher scheduled is the one the map holds for its      *)
(* vehicle, so no vehicle has two controllers producing.                   *)
C17_OnlyTheRegisteredControllerProduces ==
    isInitialized =>
       \A o \in Active(instances) : emulators[instances[o].vehicleId] = o

----------------------------------------------------------------------------
(* What the claims about the Track Interpolator look at *)

(* C18: constructing an interpolator over fewer than 2 waypoints throws,   *)
(* and generateNextGpsData() is only ever called on an interpolator whose  *)
(* track has 2 waypoints or more; over 2 or more waypoints the constructor *)
(* returns with the cursor at step 0 of the first segment, on the first    *)
(* waypoint.                                                               *)
C18_ShortTrackIsRefused ==
    [][/\ Construct =>
             IF Len(gpxTrackPoints) < 2
             THEN /\ lastResult'.status = "threw"
                  /\ ~Constructed'
             ELSE /\ lastResult'.status = "returned"
                  /\ Constructed'
                  /\ gpsGenerator'.currentTrackPointIndex = 0
                  /\ gpsGenerator'.nextTrackPointIndex = 1
                  /\ gpsGenerator'.step = 0
                  /\ gpsGenerator'.currentLat = gpxTrackPoints[1].lat
                  /\ gpsGenerator'.currentLon = gpxTrackPoints[1].lon
                  /\ ~isEndOfPath(gpsGenerator', gpxTrackPoints)
       /\ GenerateNext => Len(gpxTrackPoints) >= 2]_<<vars, appVars>>

\* the constructor has thrown over a track of one waypoint
C18_Reached ==
    /\ Len(gpxTrackPoints) = 1
    /\ lastResult = [op |-> "new", status |-> "threw", net |-> "none"]
    /\ calls = 0

\* the step count of the segment from waypoint i to waypoint i + 1
SegmentSteps(pts, i) ==
    calculateStepsBetweenPoints(
        [Unbuilt EXCEPT !.currentTrackPointIndex = i - 1,
                        !.nextTrackPointIndex = i], pts).totalStepsBetweenPoints

\* the sum of the step counts of the first k segments
RECURSIVE TrackSteps(_, _)
TrackSteps(pts, k) ==
    IF k = 0 THEN 0 ELSE SegmentSteps(pts, k) + TrackSteps(pts, k - 1)

(* C19: with s the sum of the step counts of the segments of the track,    *)
(* each of the first s calls of generateNextGpsData() returns a sample and *)
(* leaves isEndOfPath() false, and every later call returns null with      *)
(* isEndOfPath() true, so exactly s samples are returned; over two         *)
(* waypoints timestamped 10 s apart the first segment has 10 steps and     *)
(* exactly 10 samples are returned.                                        *)
C19_SamplesEqualStepCounts ==
    Constructed =>
       /\ calls <= TrackSteps(gpxTrackPoints, Len(gpxTrackPoints) - 1) =>
             /\ ~isEndOfPath(gpsGenerator, gpxTrackPoints)
             /\ Len(generatedGpsDataBuffer) = calls
             /\ lastResult.status # "null"
       /\ calls > TrackSteps(gpxTrackPoints, Len(gpxTrackPoints) - 1) =>
             /\ isEndOfPath(gpsGenerator, gpxTrackPoints)
             /\ Len(generatedGpsDataBuffer)
                   = TrackSteps(gpxTrackPoints, Len(gpxTrackPoints) - 1)
             /\ lastResult.status = "null"
       /\ gpxTrackPoints = TenSecondTrack =>
             /\ calls = 0 => gpsGenerator.totalStepsBetweenPoints = 10
             /\ isEndOfPath(gpsGenerator, gpxTrackPoints)
                   => Len(generatedGpsDataBuffer) = 10

\* the eleventh call over the 10 s track has returned null after 10 samples
C19_Reached ==
    /\ gpxTrackPoints = TenSecondTrack
    /\ calls = 11
    /\ lastResult = [op |-> "next", status |-> "null", net |-> "none"]
    /\ Len(generatedGpsDataBuffer) = 10
    /\ isEndOfPath(gpsGenerator, gpxTrackPoints)

\* the step count the claim gives the segment between two waypoints
ClaimedSteps(curr, next) ==
    IF curr.time # NoDate /\ next.time # NoDate
    THEN Max(1, (next.time - curr.time) \div EMULATOR_INTERVAL_MS)
    ELSE Max(1, (2 * calculateDistance(createGpsFromGpx(curr),
                                       createGpsFromGpx(next)) * 1000
                    + 50 * EMULATOR_INTERVAL_MS)
                \div (2 * 50 * EMULATOR_INTERVAL_MS))

(* C20: the step count the interpolator holds is at least 1, and while the *)
(* cursor is on a segment it is max(1, floor(dt / interval)) when both     *)
(* endpoints are timestamped and max(1, round(distance / 50 * 1000 /       *)
(* interval)) otherwise, as is the step count of every segment of the      *)
(* track; the 500 m segment without timestamps has 10 steps.               *)
C20_StepCountOfSegment ==
    Constructed =>
       /\ gpsGenerator.totalStepsBetweenPoints >= 1
       /\ gpsGenerator.nextTrackPointIndex < Len(gpxTrackPoints) =>
             gpsGenerator.totalStepsBetweenPoints
                = ClaimedSteps(PointAt(gpxTrackPoints,
                                       gpsGenerator.currentTrackPointIndex),
                               PointAt(gpxTrackPoints,
                                       gpsGenerator.nextTrackPointIndex))
       /\ \A i \in 1..(Len(gpxTrackPoints) - 1) :
             /\ SegmentSteps(gpxTrackPoints, i) >= 1
             /\ SegmentSteps(gpxTrackPoints, i)
                   = ClaimedSteps(gpxTrackPoints[i], gpxTrackPoints[i + 1])
       /\ gpxTrackPoints = HalfKilometreTrack =>
             /\ calculateDistance(createGpsFromGpx(gpxTrackPoints[1]),
                                  createGpsFromGpx(gpxTrackPoints[2])) = 500
             /\ SegmentSteps(gpxTrackPoints, 1) = 10

\* the cursor is in mid-segment on the 500 m track, which has 10 steps
C20_Reached ==
    /\ gpxTrackPoints = HalfKilometreTrack
    /\ Constructed
    /\ gpsGenerator.totalStepsBetweenPoints = 10
    /\ gpsGenerator.step = 5

(* C21: once generateNextGpsData() has returned null, every later call     *)
(* returns null as well, returns no sample, and isEndOfPath() is true      *)
(* after it as it was before.                                              *)
C21_NullIsFinal ==
    [][(GenerateNext /\ lastResult.status = "null") =>
          /\ isEndOfPath(gpsGenerator, gpxTrackPoints)
          /\ lastResult'.status = "null"
          /\ isEndOfPath(gpsGenerator', gpxTrackPoints)
          /\ generatedGpsDataBuffer' = generatedGpsDataBuffer]_<<vars, appVars>>

\* the one-step track has ended and four calls in a row have returned null
C21_Reached ==
    /\ gpxTrackPoints = BriefTimedTrack
    /\ calls = 5
    /\ Len(generatedGpsDataBuffer) = 1
    /\ lastResult = [op |-> "next", status |-> "null", net |-> "none"]
    /\ isEndOfPath(gpsGenerator, gpxTrackPoints)

----------------------------------------------------------------------------
(* What further claims about the controller and its interpolator look at *)

(* C22: the cumulative distance of the interpolator never decreases        *)
(* unless the interpolator is replaced by a fresh one, which only          *)
(* hardStop(), the end of endTripNormally() (reached from a sampler firing *)
(* at the end of the track) and a failed start() do; the                   *)
(* sample a sampler firing appends carries the cumulative distance reached *)
(* by then, and stop() and start() leave the cumulative distance as it is. *)
C22_DistanceNeverDecreases ==
    [][/\ \/ gpsGenerator'.totalDistance >= gpsGenerator.totalDistance
          \/ /\ gpsGenerator' = GpsDataGenerator(gpxTrackPoints)
             /\ \/ HardStop
                \/ StartSettledStep
                \/ EndTripSettledStep
                \/ /\ GpsGeneratorTick
                   /\ isEndOfPath(advanceToNextStepOrSegment(gpsGenerator,
                                                             gpxTrackPoints),
                                  gpxTrackPoints)
       /\ gpsGenerator'.totalDistance = 0 =>
             \/ gpsGenerator.totalDistance = 0
             \/ gpsGenerator' = GpsDataGenerator(gpxTrackPoints)
       /\ Len(generatedGpsDataBuffer') = Len(generatedGpsDataBuffer) + 1 =>
             /\ generatedGpsDataBuffer'[Len(generatedGpsDataBuffer')].totalDistance
                   = gpsGenerator'.totalDistance
             /\ gpsGenerator'.totalDistance >= gpsGenerator.totalDistance
       /\ (Start \/ Stop \/ StopCycleSettledStep \/ StopOffSettledStep)
             => gpsGenerator'.totalDistance = gpsGenerator.totalDistance]_vars

\* a trip that had covered some distance is being resumed after stop(): the
\* trip-start message carries that distance
C22_Reached ==
    /\ lastResult.op = "stop"
    /\ gpsGenerator.totalDistance > 0
    /\ \E i \in DOMAIN inflight :
          /\ inflight[i].request = "on"
          /\ inflight[i].gps.totalDistance = gpsGenerator.totalDistance

(* C23: in every state of a constructed interpolator the step within the   *)
(* segment lies between 0 and the segment's number of steps, and the end   *)
(* index of the segment is the start index plus one.                       *)
C23_CursorWithinSegment ==
    Constructed =>
        /\ 0 <= gpsGenerator.step
        /\ gpsGenerator.step <= gpsGenerator.totalStepsBetweenPoints
        /\ gpsGenerator.nextTrackPointIndex
              = gpsGenerator.currentTrackPointIndex + 1

----------------------------------------------------------------------------
(* What the claims about the Motion Calculator look at *)

\* the Motion Calculator has been applied to the two readings of the state
Calculated == lastResult.op = "calculate"

\* the results of that application
Motion == generatedGpsDataBuffer[1]

\* the elapsed time between the two readings, in ms
ElapsedMillis == now - gpsGenerator.previousGpsWithTime.intervalAt

\* the two readings have the same coordinates
Coincident ==
    /\ gpsGenerator.previousGpsWithTime.latitude = gpsGenerator.currentLat
    /\ gpsGenerator.previousGpsWithTime.longitude = gpsGenerator.currentLon

C25_ZeroOnDegenerateInputs ==
    Calculated =>
        /\ Coincident => Motion.totalDistance = 0 /\ Motion.direction = 0
        /\ ElapsedMillis <= 0 => Motion.speed = 0
        /\ Coincident => Motion.speed = 0

\* two readings some distance apart, the current one stamped before the
\* previous one, have been given the speed 0
C25_Reached ==
    /\ Calculated
    /\ ElapsedMillis < 0
    /\ ~Coincident
    /\ Motion.totalDistance > 0
    /\ Motion.speed = 0

----------------------------------------------------------------------------
(* What further claims about the interpolator alone look at *)

(* C26: the sample the first generateNextGpsData() call on a freshly       *)
(* constructed interpolator returns has speed 0, heading 0 and cumulative  *)
(* distance 0, and the interpolator's cumulative distance is still 0.      *)
C26_FirstSampleHasNoMotion ==
    [][(/\ GenerateNext
        /\ gpsGenerator = GpsDataGenerator(gpxTrackPoints)
        /\ lastResult'.status = "sample") =>
          LET first == generatedGpsDataBuffer'[Len(generatedGpsDataBuffer')]
          IN  /\ Len(generatedGpsDataBuffer') = 1
              /\ first.speed = 0
              /\ first.direction = 0
              /\ first.totalDistance = 0
              /\ gpsGenerator'.totalDistance = 0]_<<vars, appVars>>

\* the first sample has been returned, at a position away from the first
\* waypoint
C26_Reached ==
    /\ Constructed
    /\ calls = 1
    /\ lastResult.status = "sample"
    /\ Len(generatedGpsDataBuffer) = 1
    /\ generatedGpsDataBuffer[1].speed = 0
    /\ generatedGpsDataBuffer[1].direction = 0
    /\ generatedGpsDataBuffer[1].totalDistance = 0
    /\ generatedGpsDataBuffer[1].lon # gpxTrackPoints[1].lon

----------------------------------------------------------------------------
(* What further claims about the controller look at *)

\* the message start() or stop() has just composed from getCurrentGpsInfo()
Composed == inflight'[Len(inflight')]

\* a step in which start() or stop() calls getCurrentGpsInfo()
TakesSnapshot ==
    \/ Start /\ ~isRunning
    \/ Stop /\ isEngineOn /\ generatedGpsDataBuffer = <<>>
    \/ StopCycleSettledStep

(* C27: getCurrentGpsInfo(), as start() and stop() call it to compose the  *)
(* trip-start and trip-end messages, returns the current position and the  *)
(* cumulative distance with speed 0 and heading 0, and leaves the          *)
(* interpolator (segment indices, step, number of steps, position,         *)
(* previous sample, cumulative distance) and the random source as they     *)
(* were, so that the following generateNextGpsData() is not affected.      *)
C27_SnapshotChangesNothing ==
    [][TakesSnapshot =>
          /\ inflight' # <<>>
          /\ Composed.request \in {"on", "off"}
          /\ Composed.gps = [lat |-> gpsGenerator.currentLat,
                             lon |-> gpsGenerator.currentLon,
                             speed |-> 0,
                             direction |-> 0,
                             totalDistance |-> gpsGenerator.totalDistance,
                             intervalAt |-> now]
          /\ gpsGenerator' = gpsGenerator
          /\ randomState' = randomState]_vars

\* stop() has composed its trip-end message in the middle of a trip: the
\* snapshot carries the distance covered, and the interpolator still holds its
\* previous sample
C27_Reached ==
    /\ inflight # <<>>
    /\ inflight[Len(inflight)].request = "off"
    /\ inflight[Len(inflight)].gps.totalDistance > 0
    /\ inflight[Len(inflight)].gps.totalDistance = gpsGenerator.totalDistance
    /\ inflight[Len(inflight)].gps.lat = gpsGenerator.currentLat
    /\ inflight[Len(inflight)].gps.speed = 0
    /\ gpsGenerator.previousGpsWithTime # NoPrevious
    /\ gpsGenerator.step > 0

----------------------------------------------------------------------------
(* What the claims look at in the earlier GpsDataGenerator *)

(* C28: no generateNextGpsData() call reads a waypoint at an index outside *)
(* 0..count-1 or fails, and a call made with the cursor on the final       *)
(* waypoint returns the last position moved by the position noise only.    *)
C28_ReadsStayWithinTheTrack ==
    [][EarlierGenerateNext =>
          /\ earlierWaypointsRead(gpsGenerator, gpxTrackPoints)
                \subseteq 0..(Len(gpxTrackPoints) - 1)
          /\ lastResult'.status # "threw"
          /\ (/\ gpsGenerator.currentTrackPointIndex = Len(gpxTrackPoints) - 1
              /\ lastResult'.status = "sample") =>
                /\ Abs(gpsGenerator'.currentLat - gpsGenerator.currentLat)
                      <= POSITION_NOISE_HALF
                /\ Abs(gpsGenerator'.currentLon - gpsGenerator.currentLon)
                      <= POSITION_NOISE_HALF]_<<vars, appVars>>

----------------------------------------------------------------------------
(* What the claims about the two periodic actions look at *)

(* C29: a firing of the sampler that gets a sample appends exactly that    *)
(* sample to the tail of the buffer and touches neither the timers nor the *)
(* network; a firing that gets null appends nothing and runs               *)
(* endTripNormally(): both timers are cancelled and the controller is not  *)
(* running in the state in which the final flush, if the buffer held       *)
(* anything, is put on its way, and with an empty buffer the trip is ended *)
(* at once without any message.                                            *)
C29_SamplerAppendsOneOrEndsTrip ==
    [][GpsGeneratorTick =>
          IF ~NextGpsData.isNull
          THEN /\ generatedGpsDataBuffer'
                    = Append(generatedGpsDataBuffer, NextGpsData.data)
               /\ timers' = timers
               /\ inflight' = inflight
               /\ isRunning' = isRunning
          ELSE /\ generatedGpsDataBuffer' = <<>>
               /\ timers' = {}
               /\ gpsGeneratorInterval' = NoTimer
               /\ serverSenderInterval' = NoTimer
               /\ isRunning' = FALSE
               /\ IF generatedGpsDataBuffer = <<>>
                  THEN /\ inflight' = inflight
                       /\ gpsGenerator' = GpsDataGenerator(gpxTrackPoints)
                       /\ onTime' = NoDate
                       /\ isEngineOn' = FALSE
                  ELSE /\ inflight' = Append(inflight,
                              CycleRequest("endTrip", generatedGpsDataBuffer))
                       /\ isEndOfPath(gpsGenerator', gpxTrackPoints)
                       /\ onTime' = onTime
                       /\ isEngineOn' = isEngineOn]_vars

\* the sampler has got null with samples in the buffer: the final flush is on
\* its way, both timers are cancelled and the trip is not yet ended
C29_Reached ==
    /\ inflight # <<>>
    /\ inflight[Len(inflight)].caller = "endTrip"
    /\ Len(inflight[Len(inflight)].samples) >= 1
    /\ generatedGpsDataBuffer = <<>>
    /\ timers = {}
    /\ gpsGeneratorInterval = NoTimer
    /\ serverSenderInterval = NoTimer
    /\ ~isRunning
    /\ isEngineOn
    /\ isEndOfPath(gpsGenerator, gpxTrackPoints)

\* a start() of the controller is awaiting sendOnRequest
StartAwaiting == \E i \in DOMAIN inflight : inflight[i].caller = "start"

\* this step is the return of a start() whose trip-start message was
\* acknowledged
StartAcknowledged ==
    /\ StartSettledStep
    /\ lastResult' = [op |-> "start", status |-> "returned", net |-> "ok"]

(* C30: a timer is scheduled, and isRunning and isEngineOn become true,    *)
(* only in the step in which start() returns from a trip-start message     *)
(* that was acknowledged; and while a start() is awaiting that message no  *)
(* sample is appended to the buffer and no batch is posted.                *)
C30_ProducersOnlyAfterAcknowledgement ==
    [][/\ timers' \ timers # {} => StartAcknowledged
       /\ (isRunning' /\ ~isRunning) => StartAcknowledged
       /\ (isEngineOn' /\ ~isEngineOn) => StartAcknowledged
       /\ StartAwaiting => /\ ~GpsGeneratorTick
                           /\ ~ServerSenderTick]_vars

----------------------------------------------------------------------------
(* A controller left to itself: the operator calls start() once and never  *)
(* calls again. setInterval keeps firing the sampler for as long as its    *)
(* timer is scheduled, and the sink answers every request, so the sampler  *)
(* and the settling of each request are weakly fair (WF_vars); when the    *)
(* dispatcher fires relative to the sampler is left open.                  *)

\* the one start() the operator calls
FirstStart ==
    /\ calls = 0
    /\ Start

UnattendedNext ==
    \/ FirstStart
    \/ \E i \in DOMAIN inflight : StartSettled(i)
    \/ GpsGeneratorTick
    \/ ServerSenderTick
    \/ \E i \in DOMAIN inflight : DispatchSettled(i)
    \/ \E i \in DOMAIN inflight : EndTripSettled(i)

\* the sampler's timer is scheduled, and the step it would take leaves at most
\* MaxInFlight requests on their way: GpsGeneratorTick is enabled
SamplerDue ==
    /\ \E t \in timers : t.kind = "gps"
    /\ Len(gpsGeneratorCallback(This, NextGpsData).inflight) <= MaxInFlight

\* a request of the given caller is on its way: its settling is enabled
Awaiting(who) == \E i \in DOMAIN inflight : inflight[i].caller = who

\* weak fairness of an action whose enabling condition is the state
\* predicate due: WF_vars(A), with ENABLED <<A>>_vars written out
SamplerKeepsFiring ==
    []<>(~SamplerDue) \/ []<><<GpsGeneratorTick>>_vars

StartIsAnswered ==
    []<>(~Awaiting("start")) \/ []<><<StartSettledStep>>_vars

DispatchIsAnswered ==
    []<>(~Awaiting("dispatch")) \/ []<><<DispatchSettledStep>>_vars

EndTripIsAnswered ==
    []<>(~Awaiting("endTrip")) \/ []<><<EndTripSettledStep>>_vars

UnattendedSpec ==
    /\ Init
    /\ [][UnattendedNext]_vars
    /\ SamplerKeepsFiring
    /\ StartIsAnswered
    /\ DispatchIsAnswered
    /\ EndTripIsAnswered

\* the controller after a trip that ran to the end of its track
Settled ==
    /\ timers = {}
    /\ gpsGeneratorInterval = NoTimer
    /\ serverSenderInterval = NoTimer
    /\ ~isRunning
    /\ ~isEngineOn
    /\ onTime = NoDate

(* C31: a controller that has become active and gets no further operator   *)
(* call eventually reaches the end of its track and from then on stays     *)
(* settled: no timer scheduled, isRunning and isEngineOn false, the        *)
(* trip-start time cleared.                                                *)
C31_UnattendedTripEnds == isRunning ~> [](Settled /\ inflight = <<>>)

\* the trip has run to its end and the controller has settled after it
C31_Reached ==
    /\ calls = 1
    /\ lastResult.op # "none"
    /\ now >= 2 * EMULATOR_INTERVAL_MS
    /\ Settled
    /\ inflight = <<>>
    /\ generatedGpsDataBuffer = <<>>
    /\ gpsGenerator = GpsDataGenerator(gpxTrackPoints)

----------------------------------------------------------------------------
(* What the claims about interleaved operations on one controller look at *)

(* C32: in every state the sampler's timer handle is set exactly when the  *)
(* dispatcher's timer handle is set, and both are set exactly when         *)
(* isRunning is true.                                                      *)
C32_HandlesSetExactlyWhenRunning ==
    /\ (gpsGeneratorInterval # NoTimer) <=> (serverSenderInterval # NoTimer)
    /\ (gpsGeneratorInterval # NoTimer) <=> isRunning

\* a start() invoked while stop() was awaiting has returned, and that stop()
\* has returned after it: both handles are set and the controller is running
C32_Reached ==
    /\ calls = 3
    /\ lastResult.op = "stop"
    /\ isRunning
    /\ gpsGeneratorInterval # NoTimer
    /\ serverSenderInterval # NoTimer

(* C33: in every state a running controller has its engine on, so that     *)
(* stop(), which does nothing when the engine is off, can halt it.         *)
C33_RunningImpliesEngineOn == isRunning => isEngineOn

(* C34: in every state a controller whose engine is on holds a trip-start  *)
(* time, and every trip-end message on its way carries a trip-start time.  *)
C34_EngineOnHasTripStartTime ==
    /\ isEngineOn => onTime # NoDate
    /\ \A i \in DOMAIN inflight :
          inflight[i].request = "off" => inflight[i].onTime # NoDate

\* the timers the controller's two handles record
Recorded ==
    {t \in {[id |-> gpsGeneratorInterval, kind |-> "gps"],
             [id |-> serverSenderInterval, kind |-> "send"]} : t.id # NoTimer}

(* C35: in every state at most one sampler timer and at most one           *)
(* dispatcher timer are scheduled, and the scheduled timers are exactly    *)
(* those the controller's handles record.                                  *)
C35_OnlyRecordedTimersAreScheduled ==
    /\ Cardinality({t \in timers : t.kind = "gps"}) <= 1
    /\ Cardinality({t \in timers : t.kind = "send"}) <= 1
    /\ timers = Recorded

\* the second of two overlapping start() calls has returned after the first:
\* one sampler timer and one dispatcher timer are scheduled
C35_Reached ==
    /\ calls = 2
    /\ lastResult.op = "start"
    /\ inflight = <<>>
    /\ isRunning
    /\ now = 0
    /\ Cardinality(timers) = 2
    /\ timers = Recorded

(* C36: a start() invoked while an earlier start() is still awaiting its   *)
(* trip-start acknowledgement posts no message, so that the two calls send *)
(* one trip-start message; at no time are two of them on their way.        *)
C36_OverlappingStartsSendOnce ==
    [][/\ (Start /\ StartAwaiting) => inflight' = inflight
       /\ Cardinality(RequestsOf("on")') <= 1]_vars

(* hardStop() was the last operation to return and no start() has been     *)
(* invoked since: start() stamps onTime before it awaits, and onTime is    *)
(* cleared only by operations that record a result.                        *)
NoStartSinceHardStop ==
    /\ lastResult.op = "hardStop"
    /\ onTime = NoDate

(* C37: after hardStop(), and as long as no start() has been invoked since, *)
(* no step activates the controller: both producers stay cancelled and      *)
(* isRunning and isEngineOn stay false, also when a start() that was        *)
(* awaiting its acknowledgement while hardStop() ran is then acknowledged.  *)
C37_HardStopStaysStopped ==
    [][NoStartSinceHardStop =>
          /\ ~isRunning'
          /\ ~isEngineOn'
          /\ timers' = {}
          /\ gpsGeneratorInterval' = NoTimer
          /\ serverSenderInterval' = NoTimer]_vars

\* the samples handed to reportBatch with the i-th unanswered request
HandedOver(i) == {inflight[i].samples[k] : k \in DOMAIN inflight[i].samples}

(* C38: no sample is handed to reportBatch twice: two batch messages of the *)
(* controller that are on their way at the same time have no sample in      *)
(* common.                                                                  *)
C38_SampleHandedOverAtMostOnce ==
    \A i, j \in RequestsOf("cycle") : i # j => HandedOver(i) \cap HandedOver(j) = {}

\* App.currentStatus(emulatorId)
currentStatus(emulatorId) ==
    IF emulators[emulatorId] = NoEmulator
    THEN "pending"
    ELSE getStatus(instances[emulators[emulatorId]])

(* C39: on an initialized registry stop(vehicleId) for a vehicle that has   *)
(* no controller throws nothing, sends nothing and leaves the map and the   *)
(* controllers as they were, and the status of that vehicle is then         *)
(* reported as pending.                                                     *)
C39_StopOfMissingVehicleIsNoOp ==
    [][\A id \in Vehicles :
          (AppStop(id) /\ isInitialized /\ emulators[id] = NoEmulator) =>
              /\ appResult'.status # "threw"
              /\ emulators' = emulators
              /\ instances' = instances
              /\ currentStatus(id)' = "pending"]_<<vars, appVars>>

====
